---- MODULE Spec2Model ----
(***************************************************************************)
(* The resumable delivery pipeline of dev_agent: the persisted run state   *)
(* (state.py), the driver and the per-issue step sequencer                 *)
(* (issue_processor.py, __main__.py), the issue sequencer (planner.py) and *)
(* the atomic save of the state file (state.py), and the test-plan         *)
(* functions of step 7 (issue_processor.py).                               *)
(*                                                                         *)
(* The state machines share the variables below:                           *)
(*   Spec / FairSpec  the driver with failures, interrupts, kills, resumes *)
(*   SpecResume       the driver resumed on a state file with closed issues*)
(*   SpecSort         _topological_sort_issues applied to bounded inputs   *)
(*   SpecSave         AgentState.save written token by token, with kills   *)
(*   SpecTestPlan     the test attempts of step 7 on bounded descriptions  *)
(***************************************************************************)
EXTENDS Integers, Sequences, FiniteSets, TLC

VARIABLES
    issues,         \* state.issues: the in-memory list of IssueState
    phases_merged,  \* state.phases_merged (a list)
    disk,           \* the document held by the state file
    proc,           \* "running" | "exited" | "killed"
    exit_code,      \* -1 while none, else the code given to sys.exit / 0
    last_error,     \* what ended the last process run
    pc,             \* position of the driver
    phase_pos,      \* position in phases_in_order (1-based)
    issue_pos,      \* position in phase_issues (1-based)
    step,           \* number of the step of _process_single_issue (1..9)
    site,           \* call site of the pending external call
    attempt,        \* the retry counter of the code generation loop
    ret,            \* number returned by the last gh_issue_create / gh_pr_create
    review,         \* verdict of the last review of step 6, "none" without one
    next_number,    \* the hosting service's next ticket / change-request number
    effects,        \* effects[i][k]: times step k's external effect happened for issue i
    phase_effects,  \* phase_effects[p]: times a trunk-bound change request was merged
    run_exec,       \* run_exec[i][k]: times step k's body was entered in this process run
    loaded,         \* loaded[i]: issue i's cursor when this process run started
    faults,         \* failures, interrupts and kills injected so far
    items,          \* SpecSort: the input list of work items
    sorted_issues,  \* SpecSort: the output list
    sort_done,      \* SpecSort: whether the sort has been applied
    sort_passes,    \* SpecSort: per phase, the passes the while loop made
    files,          \* SpecSave: the directory of the state file, path -> content
    mem_doc,        \* SpecSave: the serialized state being saved
    prev_doc,       \* SpecSave: the serialized state of the last completed save
    spc,            \* SpecSave: position inside AgentState.save
    pr_body,        \* SpecTestPlan: the change request's description, line by line
    prev_body,      \* SpecTestPlan: the description before the last rewrite
    test_items,     \* SpecTestPlan: the items extracted before the first attempt
    results,        \* SpecTestPlan: the results parsed in the last attempt
    test_attempt,   \* SpecTestPlan: attempts of the test loop made so far
    tests_done,     \* SpecTestPlan: whether the test loop has ended
    rfiles,         \* SpecResolve: the conflicted files, each line by line
    rpos,           \* SpecResolve: position of the loop over the files
    resolution,     \* SpecResolve: the local `resolved` of _resolve_single_file
    gen_calls,      \* SpecResolve: claude_generate calls made for the file
    rpc,            \* SpecResolve: position inside resolve_conflicts
    stored_doc,     \* SpecLoad: the content of the state file
    load_result,    \* SpecLoad: what AgentState.load did with it
    raw_output,     \* SpecSetup: the text generated for the issue list
    stream,         \* SpecRun: the lines the child process emits on stdout
    written,        \* SpecRun: how many of them are in the pipe
    consumed,       \* SpecRun: how many of them the reader thread has handled
    result_text,    \* SpecRun: the variable shared by reader and main thread
    read_done,      \* SpecRun: the Event the reader sets when it ends
    child,          \* SpecRun: state of the child process
    returncode,     \* SpecRun: its exit code
    mpc,            \* SpecRun: position of the main thread in _run_claude
    completed,      \* SpecRun: stdout of the CompletedProcess returned
    mem_state,      \* SpecTrip: the AgentState that is saved
    json_file,      \* SpecTrip: the JSON document save has written
    loaded_state,   \* SpecTrip: the AgentState that load returns
    tpc             \* SpecTrip: position in the round trip

pipeVars == <<issues, phases_merged, disk, proc, exit_code, last_error, pc,
              phase_pos, issue_pos, step, site, attempt, ret, review,
              next_number,
              effects, phase_effects, run_exec, loaded, faults>>
sortVars == <<items, sorted_issues, sort_done, sort_passes>>
saveVars == <<files, mem_doc, prev_doc, spc>>
bodyVars == <<pr_body, prev_body, test_items, results, test_attempt, tests_done>>
resolveVars == <<rfiles, rpos, resolution, gen_calls, rpc>>
loadVars == <<stored_doc, load_result>>
setupVars == <<raw_output>>
runVars == <<stream, written, consumed, result_text, read_done, child,
             returncode, mpc, completed>>
tripVars == <<mem_state, json_file, loaded_state, tpc>>
auxVars == <<resolveVars, loadVars, setupVars, runVars, tripVars>>
vars == <<pipeVars, sortVars, saveVars, bodyVars, auxVars>>

(***************************************************************************)
(* Bounds of the model.                                                    *)
(***************************************************************************)
MaxIssues == 2
MaxFaults == 3
MaxItems == 3
MaxDocIssues == 2
MaxLines == 3
MaxRespLines == 3
MaxStoredIssues == 2

Phases == {1, 2}

\* AgentConfig.max_retries
max_retries == 2

(***************************************************************************)
(* state.py                                                                *)
(***************************************************************************)
SUB_STEPS ==
    << "not_started", "issue_created", "branch_created", "code_generated",
       "committed", "pr_created", "pr_reviewed", "pr_merged", "issue_closed" >>

\* list.index: the position of x in seq; 0 stands for the ValueError raised
\* when x is not in the list.
IndexOf(seq, x) ==
    IF \E i \in 1..Len(seq) : seq[i] = x
    THEN CHOOSE i \in 1..Len(seq) : seq[i] = x /\ \A j \in 1..(i - 1) : seq[j] # x
    ELSE 0

\* IssueState.past_step with a comparison that drops equality.
past_step_strict(sub_step, step_name) ==
    LET current_idx == IndexOf(SUB_STEPS, sub_step)
        target_idx == IndexOf(SUB_STEPS, step_name)
    IN  IF current_idx = 0 \/ target_idx = 0
        THEN [error |-> TRUE, result |-> FALSE]
        ELSE [error |-> FALSE, result |-> current_idx > target_idx]

\* IssueState.past_step: error is TRUE when either index lookup raises.
past_step(sub_step, step_name) ==
    LET current_idx == IndexOf(SUB_STEPS, sub_step)
        target_idx == IndexOf(SUB_STEPS, step_name)
    IN  IF current_idx = 0 \/ target_idx = 0
        THEN [error |-> TRUE, result |-> FALSE]
        ELSE [error |-> FALSE, result |-> current_idx >= target_idx]

\* IssueState(index=i, title, phase, priority): a fresh issue.  The index is
\* the position in the list; title and priority are carried by the position.
IssueState(phase) ==
    [ phase |-> phase, github_issue_number |-> 0, branch_name |-> 0,
      pr_number |-> 0, status |-> "pending", sub_step |-> "not_started" ]

\* asdict(self): the document that save writes.
asdict(iss, pm) == [issues |-> iss, phases_merged |-> pm]

\* A save that writes nothing.
save_skipped(iss, pm) == disk

\* AgentState.save as seen by the driver: the state file holds the whole
\* new document once save returns (SpecSave models the write itself).
save(iss, pm) == asdict(iss, pm)

\* AgentState.load: every key of the document is set on a fresh state.
load(doc) ==
    [ issues |-> [i \in 1..Len(doc.issues) |->
                    [ phase |-> doc.issues[i].phase,
                      github_issue_number |-> doc.issues[i].github_issue_number,
                      branch_name |-> doc.issues[i].branch_name,
                      pr_number |-> doc.issues[i].pr_number,
                      status |-> doc.issues[i].status,
                      sub_step |-> doc.issues[i].sub_step ]],
      phases_merged |-> doc.phases_merged ]

(***************************************************************************)
(* issue_processor.py: the driver                                          *)
(***************************************************************************)
\* The step names _process_single_issue tests, in the order it tests them.
STEPS ==
    << "issue_created", "branch_created", "code_generated", "committed",
       "pr_created", "pr_reviewed", "tests_passed", "pr_merged", "issue_closed" >>

NumSteps == Len(STEPS)

\* The cursor value step k records, with step 4 recording step 1's value.
RecordedCursorStale(k) == IF k = 4 THEN "issue_created" ELSE STEPS[k]

\* The cursor value step k records, with step 2 recording step 3's value.
RecordedCursorSkipping(k) == IF k = 2 THEN "code_generated" ELSE STEPS[k]

\* The cursor value step k records, with the review leaving the cursor alone.
RecordedCursorUnreviewed(k) == IF k = 6 THEN "pr_created" ELSE STEPS[k]

\* The cursor value step k assigns to issue_state.sub_step.
RecordedCursor(k) == STEPS[k]

RECURSIVE SortedSetToSeq(_)
SortedSetToSeq(S) ==
    IF S = {} THEN <<>>
    ELSE LET m == CHOOSE x \in S : \A y \in S : x <= y
         IN  <<m>> \o SortedSetToSeq(S \ {m})

\* The phase numbers in descending order.
phases_in_order_descending ==
    LET s == SortedSetToSeq({issues[i].phase : i \in 1..Len(issues)})
    IN  [k \in 1..Len(s) |-> s[Len(s) + 1 - k]]

\* sorted(set(iss["phase"] for iss in issues_data))
phases_in_order == SortedSetToSeq({issues[i].phase : i \in 1..Len(issues)})

\* The indices of the issues of a phase without the last of them.
phase_issues_short(phase_num) ==
    LET all == SelectSeq([i \in 1..Len(issues) |-> i],
                         LAMBDA i : issues[i].phase = phase_num)
    IN  SubSeq(all, 1, Len(all) - 1)

\* The indices of the issues of a phase, in list order.
phase_issues(phase_num) ==
    SelectSeq([i \in 1..Len(issues) |-> i], LAMBDA i : issues[i].phase = phase_num)

InPhases == phase_pos <= Len(phases_in_order)
cur_phase == phases_in_order[phase_pos]
cur == phase_issues(cur_phase)[issue_pos]

\* A membership test that finds nothing.
InSeqNever(x, seq) == FALSE

\* x in seq
InSeq(x, seq) == \E i \in 1..Len(seq) : seq[i] = x

ZeroCounts(n) == [i \in 1..n |-> [k \in 1..NumSteps |-> 0]]

\* The state after a fresh start has run the setup steps: the issue list has
\* been generated (grouped by ascending phase) and saved.
FreshRun(ph) ==
    /\ issues = [i \in 1..Len(ph) |-> IssueState(ph[i])]
    /\ effects = ZeroCounts(Len(ph))
    /\ run_exec = ZeroCounts(Len(ph))
    /\ loaded = [i \in 1..Len(ph) |-> "not_started"]
    /\ phases_merged = <<>>
    /\ disk = asdict(issues, phases_merged)
    /\ proc = "running"
    /\ exit_code = -1
    /\ last_error = "none"
    /\ pc = "issue_loop"
    /\ phase_pos = 1
    /\ issue_pos = 1
    /\ step = 0
    /\ site = "none"
    /\ attempt = 0
    /\ ret = 0
    /\ review = "none"
    /\ next_number = 1
    /\ phase_effects = [p \in Phases |-> [created |-> 0, merged |-> 0]]
    /\ faults = 0

InitPipeline ==
    \E n \in 1..MaxIssues : \E ph \in [1..n -> Phases] :
        /\ \A i \in 1..(n - 1) : ph[i] <= ph[i + 1]
        /\ FreshRun(ph)

IdlePipeline == FreshRun(<<1>>)

\* An issue as a state file holds it once its nine steps are recorded.
ClosedIssue(phase, i) ==
    [ phase |-> phase, github_issue_number |-> 2 * i - 1,
      branch_name |-> 2 * i - 1, pr_number |-> 2 * i,
      status |-> "completed", sub_step |-> "issue_closed" ]

\* The state after main --resume has loaded a state file with the issues
\* iss, the first closed of them closed, and the phases of merged recorded
\* as merged.
LoadedState(iss, ph, closed, merged) ==
    /\ issues = iss
    /\ effects = [i \in 1..Len(ph) |->
                    [k \in 1..NumSteps |-> IF i <= closed THEN 1 ELSE 0]]
    /\ run_exec = ZeroCounts(Len(ph))
    /\ loaded = [i \in 1..Len(ph) |-> issues[i].sub_step]
    /\ phases_merged = merged
    /\ disk = asdict(issues, phases_merged)
    /\ proc = "running"
    /\ exit_code = -1
    /\ last_error = "none"
    /\ pc = "issue_loop"
    /\ phase_pos = 1
    /\ issue_pos = 1
    /\ step = 0
    /\ site = "none"
    /\ attempt = 0
    /\ ret = 0
    /\ review = "none"
    /\ next_number = 2 * Len(ph) + Len(merged) + 1
    /\ phase_effects = [p \in Phases |->
                          IF InSeq(p, merged) THEN [created |-> 1, merged |-> 1]
                          ELSE [created |-> 0, merged |-> 0]]
    /\ faults = 0

\* The state file in which the first closed issues are closed and the
\* others untouched.
LoadedRun(ph, closed, merged) ==
    LoadedState([i \in 1..Len(ph) |->
                    IF i <= closed THEN ClosedIssue(ph[i], i) ELSE IssueState(ph[i])],
                ph, closed, merged)

\* The state file as the save at the end of step 9 leaves it: the cursor of
\* the last closed issue is issue_closed and its status still the
\* IN_PROGRESS set before _process_single_issue was called.
InterruptedRun(ph, closed, merged) ==
    LoadedState([i \in 1..Len(ph) |->
                    IF i < closed THEN ClosedIssue(ph[i], i)
                    ELSE IF i = closed
                    THEN [ClosedIssue(ph[i], i) EXCEPT !.status = "in_progress"]
                    ELSE IssueState(ph[i])],
                ph, closed, merged)

\* The state files a resumed run starts from: the issues closed so far are
\* the first of the list, and the phases recorded as merged are the first
\* phases, each with all its issues closed.
InitLoaded ==
    \E n \in 1..MaxIssues : \E ph \in [1..n -> Phases] : \E closed \in 1..n :
        \E m \in 0..Cardinality({ph[i] : i \in 1..n}) :
            LET order == SortedSetToSeq({ph[i] : i \in 1..n})
            IN  /\ \A i \in 1..(n - 1) : ph[i] <= ph[i + 1]
                /\ \A k \in 1..m : \A i \in 1..n : ph[i] = order[k] => i <= closed
                /\ LoadedRun(ph, closed, SubSeq(order, 1, m))

\* The same state files, written by a run that was killed between the save
\* of step 9 and the save of the COMPLETED status.
InitInterrupted ==
    \E n \in 1..MaxIssues : \E ph \in [1..n -> Phases] : \E closed \in 1..n :
        \E m \in 0..Cardinality({ph[i] : i \in 1..n}) :
            LET order == SortedSetToSeq({ph[i] : i \in 1..n})
            IN  /\ \A i \in 1..(n - 1) : ph[i] <= ph[i + 1]
                /\ \A k \in 1..m : \A i \in 1..n : ph[i] = order[k] => i <= closed
                /\ InterruptedRun(ph, closed, SubSeq(order, 1, m))

IdleSort == items = <<>> /\ sorted_issues = <<>> /\ sort_done = FALSE
            /\ sort_passes = <<>>
Absent == <<"absent">>
IdleSave == files = [p \in {"target", "tmp"} |-> Absent]
            /\ mem_doc = <<>> /\ prev_doc = Absent /\ spc = "idle"

IdleBody == pr_body = <<>> /\ prev_body = <<>> /\ test_items = <<>>
            /\ results = <<>> /\ test_attempt = 0 /\ tests_done = FALSE

\* No file at the state path.
NoDocument == [syntax |-> "absent", top |-> "none", keys |-> {}, issues |-> <<>>]

\* AgentState.load has not been called.
NotLoaded == [outcome |-> "pending", error |-> "none", state |-> <<>>]

\* No text has been generated for the issue list.
NoOutput == [lines |-> <<>>, value |-> <<>>]

\* No conflicted file is being resolved, no state file is being loaded, no
\* issue list is being generated, no generation call is running and no
\* state is being saved and loaded back.
IdleAux ==
    /\ rfiles = <<>> /\ rpos = 0
    /\ resolution = <<>> /\ gen_calls = 0 /\ rpc = "idle"
    /\ stored_doc = NoDocument /\ load_result = NotLoaded
    /\ raw_output = NoOutput
    /\ stream = <<>> /\ written = 0 /\ consumed = 0
    /\ result_text = "" /\ read_done = FALSE
    /\ child = "none" /\ returncode = -1
    /\ mpc = "idle" /\ completed = "none"
    /\ mem_state = <<>> /\ json_file = <<>> /\ loaded_state = <<>>
    /\ tpc = "idle"

Init == InitPipeline /\ IdleSort /\ IdleSave /\ IdleBody /\ IdleAux

\* The driver's registers that hold nothing between two process runs.
ResetRegisters ==
    /\ step' = 0
    /\ site' = "none"
    /\ attempt' = 0
    /\ ret' = 0
    /\ review' = "none"

\* Handlers that exit without saving.
HaltWithoutSave(code, err, iss) ==
    /\ disk' = disk
    /\ proc' = "exited"
    /\ exit_code' = code
    /\ last_error' = err
    /\ pc' = "halt"
    /\ ResetRegisters

\* main's handlers: the in-memory state is saved and the process exits.
Halt(code, err, iss) ==
    /\ disk' = save(iss, phases_merged)
    /\ proc' = "exited"
    /\ exit_code' = code
    /\ last_error' = err
    /\ pc' = "halt"
    /\ ResetRegisters

\* process_all_issues: the two loops, the skip of closed issues, the status
\* updates around _process_single_issue and the phase-merge guard.
DriverLoop ==
    /\ proc = "running"
    /\ pc \in {"issue_loop", "returned"}
    /\ UNCHANGED <<phases_merged, attempt, ret, review, next_number, effects,
                   phase_effects, run_exec, loaded, faults>>
    /\ IF pc = "returned"
       THEN /\ issues' = [issues EXCEPT ![cur].status = "completed"]
            /\ disk' = save(issues', phases_merged)
            /\ issue_pos' = issue_pos + 1
            /\ pc' = "issue_loop"
            /\ step' = 0
            /\ UNCHANGED <<proc, exit_code, last_error, phase_pos, site>>
       ELSE IF ~InPhases
       THEN /\ proc' = "exited"
            /\ exit_code' = 0
            /\ last_error' = "none"
            /\ pc' = "halt"
            /\ UNCHANGED <<issues, disk, phase_pos, issue_pos, step, site>>
       ELSE IF issue_pos > Len(phase_issues(cur_phase))
       THEN IF InSeq(cur_phase, phases_merged)
            THEN /\ phase_pos' = phase_pos + 1
                 /\ issue_pos' = 1
                 /\ UNCHANGED <<issues, disk, proc, exit_code, last_error, pc,
                                step, site>>
            ELSE /\ pc' = "call"
                 /\ site' = "phase_pr_create"
                 /\ UNCHANGED <<issues, disk, proc, exit_code, last_error,
                                phase_pos, issue_pos, step>>
       ELSE IF issues[cur].sub_step = "issue_closed"
       THEN /\ issue_pos' = issue_pos + 1
            /\ UNCHANGED <<issues, disk, proc, exit_code, last_error, pc,
                           phase_pos, step, site>>
       ELSE /\ issues' = [issues EXCEPT ![cur].status = "in_progress"]
            /\ disk' = save(issues', phases_merged)
            /\ pc' = "guard"
            /\ step' = 1
            /\ UNCHANGED <<proc, exit_code, last_error, phase_pos, issue_pos, site>>

\* _process_single_issue: the test `if not issue_state.past_step(S)` that
\* opens each of the nine steps.  A raised ValueError reaches main's handler;
\* a passed step is skipped; otherwise the step's body is entered (step 2
\* assigns branch_name before its first call).
StepGuard ==
    /\ proc = "running"
    /\ pc = "guard"
    /\ UNCHANGED <<phases_merged, next_number, effects, phase_effects, loaded,
                   faults, phase_pos, issue_pos>>
    /\ LET r == past_step(issues[cur].sub_step, STEPS[step])
       IN  IF r.error
           THEN /\ Halt(1, "ValueError", issues)
                /\ UNCHANGED <<issues, run_exec>>
           ELSE IF r.result
           THEN /\ IF step = NumSteps
                   THEN pc' = "returned" /\ step' = 0
                   ELSE pc' = "guard" /\ step' = step + 1
                /\ UNCHANGED <<issues, disk, proc, exit_code, last_error, site,
                               attempt, ret, review, run_exec>>
           ELSE /\ run_exec' = [run_exec EXCEPT ![cur][step] = @ + 1]
                /\ issues' = IF step = 2
                             THEN [issues EXCEPT ![cur].branch_name =
                                       issues[cur].github_issue_number]
                             ELSE issues
                /\ pc' = "call"
                /\ site' = "step"
                /\ attempt' = 0
                /\ UNCHANGED <<disk, proc, exit_code, last_error, step, ret, review>>

\* The call sites inside _process_single_issue: the call of a step, the
\* local merge of _manual_merge_to_staging and its conflict resolution.
IssueSites == {"step", "manual_merge", "manual_resolve"}

\* The exceptions _run raises for a failed command.
ErrorKinds == {"CLIError", "MergeConflictError"}

\* A retry test that never gives up.
may_retry_always(attempt_no) == TRUE

\* if attempt < max_retries, in the except block of the code generation loop
may_retry(attempt_no) == attempt_no < max_retries

\* What the review of step 6 says: the text starts with CONCERNS or it does
\* not.
Verdicts == {"APPROVE", "CONCERNS"}

\* The pending external call succeeds.  Steps 1 and 5 and the phase merge get
\* a fresh number from the hosting service.
CallOk ==
    /\ proc = "running"
    /\ pc = "call"
    /\ UNCHANGED <<issues, phases_merged, disk, proc, exit_code, last_error,
                   phase_pos, issue_pos, step, attempt, run_exec, loaded, faults>>
    /\ \E v \in Verdicts :
          review' = IF site = "step" /\ step = 6 THEN v ELSE review
    /\ IF site \in IssueSites
       THEN /\ effects' = [effects EXCEPT ![cur][step] = @ + 1]
            /\ IF site = "step" /\ step \in {1, 5}
               THEN ret' = next_number /\ next_number' = next_number + 1
               ELSE UNCHANGED <<ret, next_number>>
            /\ pc' = "record"
            /\ UNCHANGED <<site, phase_effects>>
       ELSE IF site = "phase_pr_create"
       THEN /\ phase_effects' = [phase_effects EXCEPT ![cur_phase].created = @ + 1]
            /\ ret' = next_number
            /\ next_number' = next_number + 1
            /\ site' = "phase_pr_merge"
            /\ UNCHANGED <<pc, effects>>
       ELSE IF site = "phase_pr_merge"
       THEN /\ phase_effects' = [phase_effects EXCEPT ![cur_phase].merged = @ + 1]
            /\ site' = "phase_sync"
            /\ UNCHANGED <<pc, effects, ret, next_number>>
       ELSE IF site = "phase_sync"
       THEN /\ site' = "phase_merge_trunk"
            /\ UNCHANGED <<pc, effects, phase_effects, ret, next_number>>
       ELSE IF site \in {"phase_merge_trunk", "phase_resolve"}
       THEN /\ site' = "phase_push"
            /\ UNCHANGED <<pc, effects, phase_effects, ret, next_number>>
       ELSE /\ pc' = "record"
            /\ UNCHANGED <<site, effects, phase_effects, ret, next_number>>

\* The pending external call raises.  Code generation retries while
\* attempt < max_retries; a failed remote merge of step 8 falls back to
\* _manual_merge_to_staging; every other failure reaches main's handler.
\* The calls inside the body of step 7 (lines 363-459) are not told apart:
\* the guard of step 7 raises before the body is ever entered.
\* In _merge_phase_to_main the calls are, in order: the summary and the
\* opening of the trunk-bound change request (phase_pr_create), its merge
\* (phase_pr_merge), the checkouts (phase_sync; the two pulls are wrapped
\* in `except Exception: pass` and change nothing here when they fail), the
\* merge of trunk into the integration line (phase_merge_trunk), whose
\* MergeConflictError leads to resolve_conflicts and a commit
\* (phase_resolve), and the push of the integration line (phase_push),
\* wrapped in `except Exception: pass` as well: its failure is swallowed
\* and the function goes on to record the phase.
\* In _manual_merge_to_staging the local merge (manual_merge) is wrapped the
\* same way: its MergeConflictError leads to resolve_conflicts and a commit
\* (manual_resolve).
CallFail ==
    /\ proc = "running"
    /\ pc = "call"
    /\ faults < MaxFaults
    /\ faults' = faults + 1
    /\ UNCHANGED <<issues, phases_merged, next_number, effects, phase_effects,
                   run_exec, loaded, phase_pos, issue_pos>>
    /\ \E kind \in ErrorKinds :
          IF site = "step" /\ step = 3 /\ may_retry(attempt)
          THEN /\ attempt' = attempt + 1
               /\ UNCHANGED <<disk, proc, exit_code, last_error, pc, step, site,
                              ret, review>>
          ELSE IF site = "step" /\ step = 8
          THEN /\ site' = "manual_merge"
               /\ UNCHANGED <<disk, proc, exit_code, last_error, pc, step,
                              attempt, ret, review>>
          ELSE IF site = "manual_merge" /\ kind = "MergeConflictError"
          THEN /\ site' = "manual_resolve"
               /\ UNCHANGED <<disk, proc, exit_code, last_error, pc, step,
                              attempt, ret, review>>
          ELSE IF site = "phase_merge_trunk" /\ kind = "MergeConflictError"
          THEN /\ site' = "phase_resolve"
               /\ UNCHANGED <<disk, proc, exit_code, last_error, pc, step,
                              attempt, ret, review>>
          ELSE IF site = "phase_push"
          THEN /\ site' = "phase_push_failed"
               /\ pc' = "record"
               /\ UNCHANGED <<disk, proc, exit_code, last_error, step, attempt,
                              ret, review>>
          ELSE Halt(1, kind, issues)

\* The assignments that close a step, and the save that follows them.  A
\* kill between the assignments and the save leaves the state file as a kill
\* before them does, and the memory ends with the process: the two are one
\* step here.
Record ==
    /\ proc = "running"
    /\ pc = "record"
    /\ UNCHANGED <<proc, exit_code, last_error, next_number, effects,
                   phase_effects, run_exec, loaded, faults, attempt>>
    /\ ret' = 0
    /\ site' = "none"
    /\ UNCHANGED review
    /\ IF site \in IssueSites
       THEN /\ issues' =
                 [issues EXCEPT ![cur] =
                     [@ EXCEPT !.github_issue_number = IF step = 1 THEN ret ELSE @,
                               !.pr_number = IF step = 5 THEN ret ELSE @,
                               !.sub_step = RecordedCursor(step)]]
            /\ disk' = save(issues', phases_merged)
            /\ IF step = NumSteps
               THEN pc' = "returned" /\ step' = 0
               ELSE pc' = "guard" /\ step' = step + 1
            /\ UNCHANGED <<phases_merged, phase_pos, issue_pos>>
       ELSE /\ phases_merged' = Append(phases_merged, cur_phase)
            /\ disk' = save(issues, phases_merged')
            /\ phase_pos' = phase_pos + 1
            /\ issue_pos' = 1
            /\ pc' = "issue_loop"
            /\ UNCHANGED <<issues, step>>

\* KeyboardInterrupt, at any point of the run: main saves and exits with 130.
Interrupt ==
    /\ proc = "running"
    /\ faults < MaxFaults
    /\ faults' = faults + 1
    /\ Halt(130, "KeyboardInterrupt", issues)
    /\ UNCHANGED <<issues, phases_merged, next_number, effects, phase_effects,
                   run_exec, loaded, phase_pos, issue_pos>>

\* The process is killed, at any point of the run: nothing is saved.
Kill ==
    /\ proc = "running"
    /\ faults < MaxFaults
    /\ faults' = faults + 1
    /\ proc' = "killed"
    /\ exit_code' = -1
    /\ last_error' = "killed"
    /\ pc' = "halt"
    /\ ResetRegisters
    /\ UNCHANGED <<issues, phases_merged, disk, next_number, effects,
                   phase_effects, run_exec, loaded, phase_pos, issue_pos>>

\* main with --resume: the state is loaded from the state file, the setup
\* steps are skipped by their flags and process_all_issues starts again.
Resume ==
    /\ proc # "running"
    /\ LET s == load(disk)
       IN  /\ issues' = s.issues
           /\ phases_merged' = s.phases_merged
           /\ loaded' = [i \in 1..Len(s.issues) |-> s.issues[i].sub_step]
    /\ run_exec' = ZeroCounts(Len(issues))
    /\ proc' = "running"
    /\ exit_code' = -1
    /\ last_error' = "none"
    /\ pc' = "issue_loop"
    /\ phase_pos' = 1
    /\ issue_pos' = 1
    /\ ResetRegisters
    /\ UNCHANGED <<disk, next_number, effects, phase_effects, faults>>

Next ==
    \/ (DriverLoop /\ UNCHANGED <<sortVars, saveVars, bodyVars, auxVars>>)
    \/ (StepGuard /\ UNCHANGED <<sortVars, saveVars, bodyVars, auxVars>>)
    \/ (CallOk /\ UNCHANGED <<sortVars, saveVars, bodyVars, auxVars>>)
    \/ (CallFail /\ UNCHANGED <<sortVars, saveVars, bodyVars, auxVars>>)
    \/ (Record /\ UNCHANGED <<sortVars, saveVars, bodyVars, auxVars>>)
    \/ (Interrupt /\ UNCHANGED <<sortVars, saveVars, bodyVars, auxVars>>)
    \/ (Kill /\ UNCHANGED <<sortVars, saveVars, bodyVars, auxVars>>)
    \/ (Resume /\ UNCHANGED <<sortVars, saveVars, bodyVars, auxVars>>)

Spec == Init /\ [][Next]_vars

\* The driver started with --resume on a state file that holds closed issues.
InitResume == InitLoaded /\ IdleSort /\ IdleSave /\ IdleBody /\ IdleAux

SpecResume == InitResume /\ [][Next]_vars

\* main --resume on a state file left by a kill after the last step of an
\* issue.
InitResumeInterrupted == InitInterrupted /\ IdleSort /\ IdleSave /\ IdleBody /\ IdleAux
SpecResumeInterrupted == InitResumeInterrupted /\ [][Next]_vars

\* The steps the running process, the external services and the operator who
\* restarts with --resume take when nothing fails: a process that can take a
\* step takes it, a pending call returns, a stopped run is resumed.
Progress ==
    (DriverLoop \/ StepGuard \/ CallOk \/ Record \/ Resume)
        /\ UNCHANGED <<sortVars, saveVars, bodyVars, auxVars>>

\* Spec with at most MaxFaults failures, interrupts and kills, after which
\* every external call succeeds.
FairSpec == Init /\ [][Next]_vars /\ WF_vars(Progress)

(***************************************************************************)
(* Claims about the driver                                                 *)
(***************************************************************************)
\* The ten-value lifecycle: not_started, then the nine steps in the order
\* _process_single_issue runs them.
Lifecycle == <<"not_started">> \o STEPS

\* Ordinal of a cursor value in the lifecycle, not_started being 0.
Ord(name) == IndexOf(Lifecycle, name) - 1

IssueIds == 1..Len(issues)
StepIds == 1..NumSteps

\* C1: for every issue and every step S of the ten-value lifecycle,
\* past_step(S) returns a boolean, never an error, and it is true exactly when
\* the cursor's ordinal is at least S's ordinal.
C1_PastStepTotal ==
    \A i \in IssueIds : \A k \in 1..Len(Lifecycle) :
        LET r == past_step(issues[i].sub_step, Lifecycle[k])
        IN  /\ ~r.error
            /\ r.result <=> (Ord(issues[i].sub_step) >= Ord(Lifecycle[k]))

\* C2: across step executions, failures, saves, interrupts, kills and
\* resumes, no issue's cursor decreases, in memory or in the state file.
C2_CursorMonotone ==
    [][\A i \in IssueIds :
          /\ Ord(issues'[i].sub_step) >= Ord(issues[i].sub_step)
          /\ Ord(disk'.issues[i].sub_step) >= Ord(disk.issues[i].sub_step)]_vars

\* A run resumed after a fault has advanced an issue past its loaded cursor.
C2_Witness ==
    /\ faults > 0
    /\ proc = "running"
    /\ \E i \in IssueIds :
          /\ loaded[i] # "not_started"
          /\ Ord(issues[i].sub_step) > Ord(loaded[i])
          /\ disk.issues[i].sub_step = issues[i].sub_step

AllClosed == \A i \in IssueIds : issues[i].sub_step = "issue_closed"
AllMerged == \A i \in IssueIds : InSeq(issues[i].phase, phases_merged)

\* C3: when every external call eventually succeeds, the pipeline eventually
\* has every issue at issue_closed and every phase in phases_merged, and the
\* driver exits with full completion.
C3_EventuallyComplete ==
    <>(proc = "exited" /\ exit_code = 0 /\ AllClosed /\ AllMerged)

\* C4: every change of an issue's cursor advances it by exactly one ordinal
\* of the lifecycle, and the external effect of step k happens only while
\* the cursor holds the value of step k - 1.
C4_StepsInOrder ==
    [][\A i \in IssueIds :
          /\ issues'[i].sub_step # issues[i].sub_step =>
                Ord(issues'[i].sub_step) = Ord(issues[i].sub_step) + 1
          /\ \A k \in StepIds :
                effects'[i][k] > effects[i][k] =>
                    Ord(issues[i].sub_step) = k - 1]_vars

\* An issue has been taken from not_started to pr_reviewed, every step of the
\* way having had its effect.
C4_Witness ==
    \E i \in IssueIds :
        /\ issues[i].sub_step = "pr_reviewed"
        /\ \A k \in 1..6 : effects[i][k] > 0

\* C5: in a process run, no step whose ordinal is at most the cursor the
\* issue was loaded with is entered.
C5_SkipRule ==
    \A i \in IssueIds : \A k \in StepIds :
        k <= Ord(loaded[i]) => run_exec[i][k] = 0

\* A resumed run has skipped the steps up to the loaded cursor and entered a
\* later one.
C5_Witness ==
    \E i \in IssueIds :
        /\ Ord(loaded[i]) >= 2
        /\ \E k \in StepIds : k > Ord(loaded[i]) /\ run_exec[i][k] > 0

\* C6: a driver run that ends with no external call having failed and no
\* interrupt has entered, for every issue, exactly the steps after the cursor
\* the issue was loaded with, each once.
C6_ResumeRunsRemainingSteps ==
    (proc = "exited" /\ last_error \in {"none", "ValueError"}) =>
        \A i \in IssueIds : \A k \in StepIds :
            run_exec[i][k] = IF k > Ord(loaded[i]) THEN 1 ELSE 0

\* C7: for each issue at most one remote ticket is created and the feature
\* branch is pushed with upstream tracking at most once.
C7_AtMostOnce ==
    \A i \in IssueIds : effects[i][1] <= 1 /\ effects[i][4] <= 1

\* The steps of issue i whose external effect has happened and which the
\* state file does not record.
Unrecorded ==
    { ik \in IssueIds \X StepIds :
        effects[ik[1]][ik[2]] > 0 /\ ik[2] > Ord(disk.issues[ik[1]].sub_step) }

\* C8: at every point of issue processing the state file lags the external
\* effects by at most one step, so a resume repeats at most one step whose
\* effect has happened.
C8_LagAtMostOneStep == Cardinality(Unrecorded) <= 1

\* The process was killed between a step's effect and its save.
C8_Witness == proc = "killed" /\ Cardinality(Unrecorded) = 1

(***************************************************************************)
(* planner.py: the issue sequencer                                         *)
(*                                                                         *)
(* A work item is [title, phase, dependencies].  The sort reads titles     *)
(* only through equality, so the item at input position i carries title i; *)
(* every input order of a dependency structure is then one assignment of   *)
(* dependencies to positions.  Title 0 is a title no item carries.         *)
(***************************************************************************)
WorkItem(i, phase, deps) == [title |-> i, phase |-> phase, dependencies |-> deps]

\* The dependency lists tried for the item at position i of n, by choice c:
\* one title (of the input, its own included, or the unknown one), none, or
\* the titles of all the other items.
DepChoice(n, i, c) ==
    IF c <= n THEN {c} ELSE IF c = n + 1 THEN {} ELSE (1..n) \ {i}

\* list.remove: the list without its first element equal to x.
RECURSIVE ListRemove(_, _)
ListRemove(seq, x) ==
    IF seq = <<>> THEN <<>>
    ELSE IF Head(seq) = x THEN Tail(seq)
    ELSE <<Head(seq)>> \o ListRemove(Tail(seq), x)

\* The dependency test of one item, passing whatever has been resolved.
deps_resolved_dropped(iss, resolved) == \A d \in iss.dependencies : TRUE

\* all(d in resolved for d in deps)
deps_resolved(iss, resolved) == \A d \in iss.dependencies : d \in resolved

\* One pass `for iss in list(remaining)` over the snapshot snap.
RECURSIVE SortPass(_, _, _, _)
SortPass(snap, remaining, resolved, out) ==
    IF snap = <<>>
    THEN [remaining |-> remaining, resolved |-> resolved, out |-> out]
    ELSE LET iss == Head(snap)
         IN  IF deps_resolved(iss, resolved)
             THEN SortPass(Tail(snap), ListRemove(remaining, iss),
                           resolved \cup {iss.title}, Append(out, iss))
             ELSE SortPass(Tail(snap), remaining, resolved, out)

\* The loop without the extend of what is left.
RECURSIVE SortLoopDropping(_, _, _, _, _)
SortLoopDropping(remaining, resolved, out, iteration, max_iters) ==
    IF remaining # <<>> /\ iteration < max_iters
    THEN LET r == SortPass(remaining, remaining, resolved, out)
         IN  SortLoopDropping(r.remaining, r.resolved, r.out, iteration + 1,
                              max_iters)
    ELSE [out |-> out, iterations |-> iteration, placed |-> Len(out)]

\* The loop putting what is left in front of what it placed.
RECURSIVE SortLoopLeftoversFirst(_, _, _, _, _)
SortLoopLeftoversFirst(remaining, resolved, out, iteration, max_iters) ==
    IF remaining # <<>> /\ iteration < max_iters
    THEN LET r == SortPass(remaining, remaining, resolved, out)
         IN  SortLoopLeftoversFirst(r.remaining, r.resolved, r.out,
                                    iteration + 1, max_iters)
    ELSE [out |-> remaining \o out, iterations |-> iteration,
          placed |-> Len(out)]

\* while remaining and iteration < max_iters, then the extend of what is left.
RECURSIVE SortLoop(_, _, _, _, _)
SortLoop(remaining, resolved, out, iteration, max_iters) ==
    IF remaining # <<>> /\ iteration < max_iters
    THEN LET r == SortPass(remaining, remaining, resolved, out)
         IN  SortLoop(r.remaining, r.resolved, r.out, iteration + 1, max_iters)
    ELSE [out |-> out \o remaining, iterations |-> iteration,
          placed |-> Len(out)]

\* The body for one phase with a bound of one pass.
SortPhaseOnePass(phase_list) ==
    SortLoop(phase_list, {}, <<>>, 0, 1)

\* The body of `for phase_num in sorted(phases.keys())` for one phase.
SortPhase(phase_list) ==
    SortLoop(phase_list, {}, <<>>, 0, Len(phase_list) * Len(phase_list) + 1)

\* phases[phase_num]: the items of one phase, in input order.
PhaseList(input, phase_num) ==
    SelectSeq(input, LAMBDA iss : iss.phase = phase_num)

RECURSIVE SortPhases(_, _)
SortPhases(phase_nums, input) ==
    IF phase_nums = <<>> THEN <<>>
    ELSE SortPhase(PhaseList(input, Head(phase_nums))).out
         \o SortPhases(Tail(phase_nums), input)

\* The passes of the while loop, phase by phase: how many it made and how
\* many items it had placed when it ended.
RECURSIVE SortPasses(_, _)
SortPasses(phase_nums, input) ==
    IF phase_nums = <<>> THEN <<>>
    ELSE LET r == SortPhase(PhaseList(input, Head(phase_nums)))
         IN  <<[phase |-> Head(phase_nums), iterations |-> r.iterations,
                placed |-> r.placed]>>
             \o SortPasses(Tail(phase_nums), input)

\* The sort taking the phase numbers in descending order.
topological_sort_descending(input) ==
    LET s == SortedSetToSeq({input[i].phase : i \in 1..Len(input)})
    IN  SortPhases([k \in 1..Len(s) |-> s[Len(s) + 1 - k]], input)

\* _topological_sort_issues(issues)
topological_sort_issues(input) ==
    SortPhases(SortedSetToSeq({input[i].phase : i \in 1..Len(input)}), input)

InitSort ==
    /\ \E n \in 0..MaxItems : \E f \in [1..n -> Phases \X (0..(n + 2))] :
          items = [i \in 1..n |-> WorkItem(i, f[i][1], DepChoice(n, i, f[i][2]))]
    /\ sorted_issues = <<>>
    /\ sort_done = FALSE
    /\ sort_passes = <<>>
    /\ IdlePipeline
    /\ IdleSave
    /\ IdleBody
    /\ IdleAux

SortApply ==
    /\ ~sort_done
    /\ sorted_issues' = topological_sort_issues(items)
    /\ sort_passes' = SortPasses(SortedSetToSeq({items[i].phase : i \in 1..Len(items)}), items)
    /\ sort_done' = TRUE
    /\ UNCHANGED <<items, pipeVars, saveVars, bodyVars, auxVars>>

NextSort == SortApply

SpecSort == InitSort /\ [][NextSort]_vars

(***************************************************************************)
(* state.py: AgentState.save, write by write                               *)
(*                                                                         *)
(* A serialized document is a sequence of tokens; a file holds a sequence  *)
(* of tokens, or Absent when the path does not exist.                      *)
(***************************************************************************)
SavedCursors == {"not_started", "issue_created", "branch_created"}

\* The run states saved in SpecSave: the cursors of the issues.
SaveStates == UNION { [1..n -> SavedCursors] : n \in 1..MaxDocIssues }

\* json.dump(asdict(self), f): the tokens of the document, in write order.
Serialize(st) == <<"{">> \o st \o <<"}">>

\* json.load accepts the content: an opening brace, the fields, the closing
\* brace.
Parses(content) ==
    /\ content # Absent
    /\ Len(content) >= 3
    /\ content[1] = "{"
    /\ content[Len(content)] = "}"
    /\ \A k \in 2..(Len(content) - 1) : content[k] \in SavedCursors

\* A save whose json.dump writes to the state file itself.
dump_path_target == "target"

\* The file json.dump writes to: the temporary file made by mkstemp.
dump_path == "tmp"

InitSave ==
    /\ files = [p \in {"target", "tmp"} |-> Absent]
    /\ mem_doc = <<>>
    /\ prev_doc = Absent
    /\ spc = "idle"
    /\ IdlePipeline
    /\ IdleSort
    /\ IdleBody
    /\ IdleAux

\* save is entered with some run state: mkstemp creates the empty file.
SaveBegin ==
    /\ spc = "idle"
    /\ \E st \in SaveStates : mem_doc' = Serialize(st)
    /\ files' = [files EXCEPT ![dump_path] = <<>>]
    /\ spc' = "writing"
    /\ UNCHANGED prev_doc

\* json.dump writes the next token.
SaveWrite ==
    /\ spc = "writing"
    /\ Len(files[dump_path]) < Len(mem_doc)
    /\ files' = [files EXCEPT ![dump_path] =
                    Append(@, mem_doc[Len(files[dump_path]) + 1])]
    /\ UNCHANGED <<mem_doc, prev_doc, spc>>

\* The with block is left once the document is written whole.
SaveClose ==
    /\ spc = "writing"
    /\ files[dump_path] = mem_doc
    /\ spc' = "written"
    /\ UNCHANGED <<files, mem_doc, prev_doc>>

\* os.replace(tmp_path, path): one atomic rename.
SaveReplace ==
    /\ spc = "written"
    /\ files' = IF files["tmp"] # Absent
                THEN [files EXCEPT !["target"] = files["tmp"], !["tmp"] = Absent]
                ELSE files
    /\ prev_doc' = mem_doc
    /\ mem_doc' = <<>>
    /\ spc' = "idle"

\* An exception inside the try block: the temporary file is unlinked and the
\* exception raised again.
SaveRaise ==
    /\ spc \in {"writing", "written"}
    /\ files' = [files EXCEPT !["tmp"] = Absent]
    /\ mem_doc' = <<>>
    /\ spc' = "idle"
    /\ UNCHANGED prev_doc

\* The process is killed inside save; the next process run makes a temporary
\* file of another name, so the one left behind is never read again.
SaveKill ==
    /\ spc \in {"writing", "written"}
    /\ files' = [files EXCEPT !["tmp"] = Absent]
    /\ spc' = "killed"
    /\ UNCHANGED <<mem_doc, prev_doc>>

\* The next process run starts.
SaveRestart ==
    /\ spc = "killed"
    /\ spc' = "idle"
    /\ mem_doc' = <<>>
    /\ UNCHANGED <<files, prev_doc>>

NextSave ==
    \/ (SaveBegin /\ UNCHANGED <<pipeVars, sortVars, bodyVars, auxVars>>)
    \/ (SaveWrite /\ UNCHANGED <<pipeVars, sortVars, bodyVars, auxVars>>)
    \/ (SaveClose /\ UNCHANGED <<pipeVars, sortVars, bodyVars, auxVars>>)
    \/ (SaveReplace /\ UNCHANGED <<pipeVars, sortVars, bodyVars, auxVars>>)
    \/ (SaveRaise /\ UNCHANGED <<pipeVars, sortVars, bodyVars, auxVars>>)
    \/ (SaveKill /\ UNCHANGED <<pipeVars, sortVars, bodyVars, auxVars>>)
    \/ (SaveRestart /\ UNCHANGED <<pipeVars, sortVars, bodyVars, auxVars>>)

SpecSave == InitSave /\ [][NextSave]_vars

(***************************************************************************)
(* C9: atomic save                                                         *)
(***************************************************************************)
\* C9: whenever the state file exists, at every point of a save and after a
\* kill at any of them, it holds the whole document of the last completed
\* save or the whole document being saved, and that document parses.
C9_AtomicSave ==
    files["target"] # Absent =>
        /\ Parses(files["target"])
        /\ files["target"] = prev_doc \/ files["target"] = mem_doc

\* A save was killed with its temporary file partly written, while the state
\* file holds an earlier, different document.
C9_Witness ==
    /\ spc = "killed"
    /\ files["target"] # Absent
    /\ mem_doc # <<>>
    /\ mem_doc # files["target"]

(***************************************************************************)
(* C10: dependency order of the issue sequencer                            *)
(***************************************************************************)
\* Position of the item titled t in a list, 0 when there is none.
PosOf(list, t) ==
    IF \E i \in 1..Len(list) : list[i].title = t
    THEN CHOOSE i \in 1..Len(list) : list[i].title = t
    ELSE 0

\* One more layer of items whose dependencies all lie in R, within the phase.
Layer(input, R) ==
    { i \in 1..Len(input) :
        \A d \in input[i].dependencies :
            d \in R /\ input[d].phase = input[i].phase }

\* The items whose dependency titles all name items of the same phase in an
\* acyclic way: the least fixed point of Layer.
RECURSIVE AcyclicItems(_, _)
AcyclicItems(input, R) ==
    IF Layer(input, R) = R THEN R ELSE AcyclicItems(input, Layer(input, R))

\* p lists the positions of a dependency chain: p[1] depends on nothing and
\* each later item on exactly its predecessor, all in one phase.
IsChain(input, p) ==
    /\ \A k \in 1..Len(input) : input[p[k]].phase = input[p[1]].phase
    /\ input[p[1]].dependencies = {}
    /\ \A k \in 2..Len(input) : input[p[k]].dependencies = {p[k - 1]}

Perms(n) == { p \in [1..n -> 1..n] : \A a, b \in 1..n : a # b => p[a] # p[b] }

\* C10: in the output of _topological_sort_issues every item whose
\* dependencies all name same-phase items acyclically comes after each of its
\* dependencies; a chain A <- B <- C of one phase comes out as A, B, C in
\* every input order.
C10_DependenciesFirst ==
    sort_done =>
        /\ \A i \in AcyclicItems(items, {}) : \A d \in items[i].dependencies :
              /\ PosOf(sorted_issues, d) > 0
              /\ PosOf(sorted_issues, d) < PosOf(sorted_issues, i)
        /\ (Len(items) > 0 /\ \A i \in 1..Len(items) :
                                Cardinality(items[i].dependencies) <= 1) =>
              \A p \in Perms(Len(items)) :
                  IsChain(items, p) =>
                      sorted_issues = [k \in 1..Len(items) |-> items[p[k]]]

\* The chain given in reverse input order (C, B, A) has come out as A, B, C.
C10_Witness ==
    /\ sort_done
    /\ Len(items) = 3
    /\ IsChain(items, <<3, 2, 1>>)
    /\ sorted_issues = <<items[3], items[2], items[1]>>

(***************************************************************************)
(* C11..C14: the shape of the issue sequencer's output                     *)
(***************************************************************************)
\* The positions of the input whose items never become resolvable: members
\* of a dependency cycle, items depending on a title that no item of their
\* phase carries, and items depending on such items.
Unresolvable(input) == (1..Len(input)) \ AcyclicItems(input, {})

\* The positions of the input that belong to phase p.
OfPhase(input, p) == { i \in 1..Len(input) : input[i].phase = p }

\* C11: the output of _topological_sort_issues is a permutation of its input:
\* it is as long as the input and holds every input item exactly once, for
\* every input, those with cycles and unknown dependency titles included.
C11_Permutation ==
    sort_done =>
        /\ Len(sorted_issues) = Len(items)
        /\ \A i \in 1..Len(items) :
              Cardinality({ k \in 1..Len(sorted_issues) :
                              sorted_issues[k] = items[i] }) = 1

\* Two items depending on each other and a third depending on an unknown
\* title have been sorted, and all three are in the output.
C11_Witness ==
    /\ sort_done
    /\ Len(items) = 3
    /\ items[1].dependencies = {2}
    /\ items[2].dependencies = {1}
    /\ items[3].dependencies = {0}
    /\ Len(sorted_issues) = 3

\* C12: the output is grouped by ascending phase: an item never comes before
\* an item of a lower phase.
C12_AscendingPhases ==
    sort_done =>
        \A i, j \in 1..Len(sorted_issues) :
            i < j => sorted_issues[i].phase <= sorted_issues[j].phase

\* An input that lists a phase-2 item before a phase-1 item has been sorted
\* and the phase-1 item has come out first.
C12_Witness ==
    /\ sort_done
    /\ Len(items) >= 2
    /\ items[1].phase = 2
    /\ items[2].phase = 1
    /\ sorted_issues[1] = items[2]

\* C13: within each phase the items that never become resolvable come after
\* every resolvable item of the phase, in their original relative order; the
\* sort returns a list for such inputs as for any other.
C13_LeftoversLast ==
    sort_done =>
        /\ Len(sorted_issues) = Len(items)
        /\ \A u \in Unresolvable(items) : PosOf(sorted_issues, u) > 0
        /\ \A u \in Unresolvable(items) : \A r \in AcyclicItems(items, {}) :
              items[r].phase = items[u].phase =>
                  PosOf(sorted_issues, r) < PosOf(sorted_issues, u)
        /\ \A u, v \in Unresolvable(items) :
              (items[u].phase = items[v].phase /\ u < v) =>
                  PosOf(sorted_issues, u) < PosOf(sorted_issues, v)

\* A phase given as (cycle member, item depending on another phase's title,
\* resolvable item, ...) has been sorted: the resolvable item of position 3
\* has come out before the two leftovers.
C13_Witness ==
    /\ sort_done
    /\ Len(items) = 3
    /\ items[1].phase = 1 /\ items[2].phase = 1 /\ items[3].phase = 1
    /\ items[1].dependencies = {1}
    /\ items[2].dependencies = {0}
    /\ items[3].dependencies = {}
    /\ sorted_issues = <<items[3], items[1], items[2]>>

\* k passes of the while loop's body from the given registers.
RECURSIVE AfterPasses(_, _, _, _)
AfterPasses(remaining, resolved, out, k) ==
    IF k = 0 THEN [remaining |-> remaining, resolved |-> resolved, out |-> out]
    ELSE LET r == SortPass(remaining, remaining, resolved, out)
         IN  AfterPasses(r.remaining, r.resolved, r.out, k - 1)

\* C14: the sort ends on every input after at most n*n+1 passes over a phase
\* of n items, and all the resolvable items of the phase are placed by the
\* loop, within the first n passes, before the bound is reached.
C14_PassBound ==
    sort_done =>
        \A s \in 1..Len(sort_passes) :
            LET p == sort_passes[s].phase
                n == Cardinality(OfPhase(items, p))
                m == Cardinality(OfPhase(items, p) \cap AcyclicItems(items, {}))
            IN  /\ sort_passes[s].iterations <= n * n + 1
                /\ sort_passes[s].placed = m
                /\ n < n * n + 1
                /\ Len(AfterPasses(PhaseList(items, p), {}, <<>>, n).out) = m
                /\ (m = n) => sort_passes[s].iterations <= n

\* A chain given in reverse input order has been sorted: the loop made
\* three passes and placed the three items.
C14_Witness ==
    /\ sort_done
    /\ \E s \in 1..Len(sort_passes) :
          sort_passes[s].iterations = 3 /\ sort_passes[s].placed = 3

(***************************************************************************)
(* C15..C18: the order of the driver and the phase merge                   *)
(***************************************************************************)
Closed(i) == issues[i].sub_step = "issue_closed"

\* p is an entry of state.phases_merged.
Recorded(p) == \E k \in 1..Len(phases_merged) : phases_merged[k] = p

\* The call sites of _merge_phase_to_main.
PhaseSites == {"phase_pr_create", "phase_pr_merge", "phase_sync",
               "phase_merge_trunk", "phase_resolve", "phase_push",
               "phase_push_failed"}

\* The driver is inside _merge_phase_to_main.
InPhaseMerge ==
    proc = "running" /\ pc \in {"call", "record"} /\ site \in PhaseSites

\* The driver is inside _process_single_issue for issue i.
InIssue(i) ==
    /\ proc = "running"
    /\ \/ pc = "guard"
       \/ pc \in {"call", "record"} /\ site \in IssueSites
    /\ cur = i

C16_MergeOnlyWhenClosed ==
    /\ InPhaseMerge =>
          \A i \in IssueIds : issues[i].phase = cur_phase => Closed(i)
    /\ \A k \in 1..Len(phases_merged) :
          \A i \in IssueIds : issues[i].phase = phases_merged[k] => Closed(i)

\* The phase merge has been entered for a phase of two closed issues.
C16_Witness ==
    /\ InPhaseMerge
    /\ site = "phase_pr_create"
    /\ Len(phase_issues(cur_phase)) = 2

\* C17: a phase number is added to phases_merged only when every operation
\* of the phase merge has succeeded, the push of the integration line being
\* the last of them; when one of them fails phases_merged stays as it is.
C17_RecordedOnlyAfterSuccess ==
    [][Len(phases_merged') > Len(phases_merged) => site = "phase_push"]_vars

\* Number of entries of seq equal to x.
Count(x, seq) == Cardinality({ k \in 1..Len(seq) : seq[k] = x })

\* C18: for a phase that is in phases_merged, a run of the driver never
\* enters _merge_phase_to_main, no trunk-bound change request is opened or
\* merged for it, and phases_merged, in memory and in the state file, holds
\* it once.
C18_PhaseMergeIdempotent ==
    [][\A p \in Phases :
          Recorded(p) =>
              /\ ~(InPhaseMerge' /\ cur_phase' = p)
              /\ phase_effects'[p] = phase_effects[p]
              /\ Count(p, phases_merged') = 1
              /\ Count(p, disk'.phases_merged) = 1]_vars

\* A run started on a state file that records phase 1 has passed phase 1
\* and is in the first step of the issue of phase 2; no second change
\* request of phase 1 exists.
C18_Witness ==
    /\ Len(issues) = 2
    /\ phases_merged = <<1>>
    /\ loaded[2] = "not_started"
    /\ InIssue(2)
    /\ phase_effects[1] = [created |-> 1, merged |-> 1]

(***************************************************************************)
(* issue_processor.py: the test-plan functions of step 7                   *)
(*                                                                         *)
(* A description is a sequence of lines, each taken as the regular         *)
(* expressions of the code read it: a heading (its number of # signs and   *)
(* whether its title starts with "Test Plan"), a checkbox line (its box,   *)
(* its text and the annotation that ends it, if any) or any other line.    *)
(***************************************************************************)
NoNote == [tag |-> "none", reason |-> ""]

Heading(level, test_plan) ==
    [ kind |-> "heading", level |-> level, test_plan |-> test_plan,
      checked |-> FALSE, text |-> "", note |-> NoNote ]

Checkbox(checked, text, note) ==
    [ kind |-> "checkbox", level |-> 0, test_plan |-> FALSE,
      checked |-> checked, text |-> text, note |-> note ]

Prose ==
    [ kind |-> "prose", level |-> 0, test_plan |-> FALSE,
      checked |-> FALSE, text |-> "", note |-> NoNote ]

\* re.match(r"^#{1,3}\s+Test Plan", stripped, re.IGNORECASE)
IsTestPlanHeading(line) ==
    line.kind = "heading" /\ line.level <= 3 /\ line.test_plan

\* re.match(r"^#{1,3}\s+", stripped)
IsHeading(line) == line.kind = "heading" /\ line.level <= 3

\* re.match(r"^-\s*\[[ x]\]\s*(.+)", stripped)
IsCheckbox(line) == line.kind = "checkbox"

\* match.group(1).strip() of the checkbox pattern: the text with whatever
\* annotation ends the line.
ItemText(line) == [text |-> line.text, note |-> line.note]

\* re.sub(r"\s*\*\*\[(FAILED|SKIPPED):.*?\]\*\*$", "", item_text).strip()
CleanText(line) == [text |-> line.text, note |-> NoNote]

\* The loop of _extract_test_items over the lines.
RECURSIVE ExtractLoop(_, _, _)
ExtractLoop(lines, in_test_plan, found) ==
    IF lines = <<>> THEN found
    ELSE LET line == Head(lines)
         IN  IF IsTestPlanHeading(line)
             THEN ExtractLoop(Tail(lines), TRUE, found)
             ELSE IF in_test_plan /\ IsHeading(line)
             THEN found
             ELSE IF in_test_plan /\ IsCheckbox(line)
             THEN ExtractLoop(Tail(lines), in_test_plan,
                              Append(found, ItemText(line)))
             ELSE ExtractLoop(Tail(lines), in_test_plan, found)

\* _extract_test_items(pr_body)
extract_test_items(body) == ExtractLoop(body, FALSE, <<>>)

\* One line of the results block: "<number>. <word> | <description>" with
\* " | <reason>" after it when reason is not empty.
ResultLine(number, word, description, reason) ==
    [number |-> number, word |-> word, description |-> description,
     reason |-> reason]

\* _parse_test_results: the lines whose word is PASS, FAIL or SKIP become
\* results; a missing reason becomes the empty string; other lines are dropped.
RECURSIVE parse_test_results(_)
parse_test_results(block) ==
    IF block = <<>> THEN <<>>
    ELSE LET line == Head(block)
         IN  IF line.word \in {"PASS", "FAIL", "SKIP"}
             THEN <<[number |-> line.number, status |-> line.word,
                     description |-> line.description,
                     reason |-> line.reason]>>
                  \o parse_test_results(Tail(block))
             ELSE parse_test_results(Tail(block))

\* What status_map.get returns for a key that is not in the dict.
NoResult == [number |-> 0, status |-> "none", description |-> "", reason |-> ""]

\* The loop that fills status_map: the dict is keyed by the text of the item
\* at the result's position, a later result replacing an earlier one.
RECURSIVE BuildStatusMap(_, _, _)
BuildStatusMap(rs, its, status_map) ==
    IF rs = <<>> THEN status_map
    ELSE LET r == Head(rs)
             idx == r.number - 1
         IN  IF 0 <= idx /\ idx < Len(its)
             THEN BuildStatusMap(Tail(rs), its,
                                 [status_map EXCEPT ![its[idx + 1]] = r])
             ELSE BuildStatusMap(Tail(rs), its, status_map)

\* The body of the loop over the lines of the description.
UpdateLine(line, status_map) ==
    IF IsCheckbox(line)
    THEN LET clean == CleanText(line)
             result == IF clean \in DOMAIN status_map
                       THEN status_map[clean] ELSE NoResult
         IN  IF result.status = "PASS"
             THEN Checkbox(TRUE, clean.text, NoNote)
             ELSE IF result.status = "FAIL"
             THEN Checkbox(FALSE, clean.text,
                           [tag |-> "FAILED", reason |-> result.reason])
             ELSE IF result.status = "SKIP"
             THEN Checkbox(FALSE, clean.text,
                           [tag |-> "SKIPPED", reason |-> result.reason])
             ELSE line
    ELSE line

\* _update_pr_body_with_results(pr_body, test_items, results)
update_pr_body_with_results(body, its, rs) ==
    LET keys == { its[k] : k \in 1..Len(its) }
        status_map == BuildStatusMap(rs, its, [t \in keys |-> NoResult])
    IN  [j \in 1..Len(body) |-> UpdateLine(body[j], status_map)]

\* The lines the descriptions are made of.
LineChoice(c) ==
    CASE c = 1 -> Heading(2, TRUE)
      [] c = 2 -> Heading(3, FALSE)
      [] c = 3 -> Heading(2, FALSE)
      [] c = 4 -> Checkbox(FALSE, "renders header", NoNote)
      [] c = 5 -> Checkbox(FALSE, "handles empty input", NoNote)
      [] OTHER -> Prose

\* The results blocks the generation service answers with: one line at most
\* for each of the numbers 1, 2 and 3, the word of the third being FAIL or a
\* word the parser does not know.
ResultBlocks ==
    { SelectSeq(<< ResultLine(1, w[1], "header is rendered",
                              IF w[1] = "PASS" THEN "" ELSE "times out"),
                   ResultLine(2, w[2], "handles empty input",
                              IF w[2] = "PASS" THEN "" ELSE "throws on null"),
                   ResultLine(3, w[3], "third", "not run") >>,
                LAMBDA line : line.word # "none")
      : w \in {"none", "PASS", "FAIL", "SKIP"} \X {"none", "PASS", "FAIL", "SKIP"}
              \X {"none", "FAIL", "ERROR"} }

\* Step 7 has fetched the description and extracted the test items.
InitTestPlan ==
    /\ \E n \in 0..MaxLines : \E f \in [1..n -> 1..6] :
          pr_body = [j \in 1..n |-> LineChoice(f[j])]
    /\ prev_body = pr_body
    /\ test_items = extract_test_items(pr_body)
    /\ results = <<>>
    /\ test_attempt = 0
    /\ tests_done = (test_items = <<>>)
    /\ IdlePipeline
    /\ IdleSort
    /\ IdleSave
    /\ IdleAux

\* One turn of `for attempt in range(max_retries + 1)`: the output of the
\* test run is parsed; without results nothing is rewritten; with results
\* the description is fetched, rewritten and stored, and the loop ends when
\* no result is FAIL or the attempts are used up.
TestAttempt ==
    /\ ~tests_done
    /\ test_attempt <= max_retries
    /\ \E block \in ResultBlocks :
          /\ results' = parse_test_results(block)
          /\ IF results' = <<>>
             THEN /\ UNCHANGED <<pr_body, prev_body>>
                  /\ tests_done' = (test_attempt = max_retries)
             ELSE /\ prev_body' = pr_body
                  /\ pr_body' = update_pr_body_with_results(pr_body, test_items,
                                                            results')
                  /\ tests_done' =
                        \/ \A k \in 1..Len(results') : results'[k].status # "FAIL"
                        \/ test_attempt = max_retries
    /\ test_attempt' = test_attempt + 1
    /\ UNCHANGED <<test_items, pipeVars, sortVars, saveVars, auxVars>>

NextTestPlan == TestAttempt

SpecTestPlan == InitTestPlan /\ [][NextTestPlan]_vars

(***************************************************************************)
(* C19, C20: the rewrite of the checklist                                  *)
(***************************************************************************)
\* The positions of the checklist lines of the Test Plan section of a
\* description: the checkbox lines after its first Test Plan heading and
\* before the next heading that ends the section.
SectionStart(body) ==
    CHOOSE j \in 1..Len(body) :
        IsTestPlanHeading(body[j])
        /\ \A h \in 1..(j - 1) : ~IsTestPlanHeading(body[h])

ChecklistPositions(body) ==
    IF \A j \in 1..Len(body) : ~IsTestPlanHeading(body[j]) THEN {}
    ELSE { j \in (SectionStart(body) + 1)..Len(body) :
             /\ IsCheckbox(body[j])
             /\ \A h \in (SectionStart(body) + 1)..(j - 1) :
                   IsHeading(body[h]) => IsTestPlanHeading(body[h]) }

\* The position of the k-th checklist line of the Test Plan section.
ItemPos(body, k) ==
    CHOOSE j \in ChecklistPositions(body) :
        Cardinality({ h \in ChecklistPositions(body) : h <= j }) = k

\* A rewrite has just been made with the parsed results.
Rewritten == test_attempt > 0 /\ results # <<>>

\* The status a checklist line shows.
LineStatus(line) ==
    IF line.checked THEN "PASS"
    ELSE IF line.note.tag = "FAILED" THEN "FAIL"
    ELSE IF line.note.tag = "SKIPPED" THEN "SKIP"
    ELSE "none"

\* C19: after _update_pr_body_with_results the checklist line of each test
\* item that has a result is: for PASS a checked box with the item text, for
\* FAIL an unchecked box with the item text and the annotation
\* **[FAILED: <reason>]**, for SKIP an unchecked box with the item text and
\* **[SKIPPED: <reason>]**.
C19_AnnotatedPerResult ==
    Rewritten =>
        \A n \in 1..Len(results) :
            LET r == results[n]
            IN  r.number \in 1..Len(test_items) =>
                    pr_body[ItemPos(prev_body, r.number)] =
                        Checkbox(r.status = "PASS", test_items[r.number].text,
                                 IF r.status = "PASS" THEN NoNote
                                 ELSE [tag |-> IF r.status = "FAIL"
                                               THEN "FAILED" ELSE "SKIPPED",
                                       reason |-> r.reason])

\* C20: results are matched to test items by position: after the rewrite
\* the k-th checklist line of the Test Plan shows the status of the result
\* numbered k and is as before when there is no such result, and results
\* numbered outside 1..len(items) change no line.
C20_MatchedByPosition ==
    Rewritten =>
        /\ \A k \in 1..Len(test_items) :
              LET j == ItemPos(prev_body, k)
              IN  IF \E n \in 1..Len(results) : results[n].number = k
                  THEN \E n \in 1..Len(results) :
                          /\ results[n].number = k
                          /\ LineStatus(pr_body[j]) = results[n].status
                  ELSE pr_body[j] = prev_body[j]
        /\ (\A n \in 1..Len(results) :
                results[n].number \notin 1..Len(test_items)) =>
              pr_body = prev_body

(***************************************************************************)
(* C21: the test step                                                      *)
(***************************************************************************)
\* C21: the test step ends by itself and never halts the run: a run that
\* has ended while an issue stands at pr_reviewed, the cursor from which
\* step 7 starts, was ended by a failed external call or by the operator,
\* and a run without failures, interrupts and kills does not end with a
\* non-zero exit code.
C21_TestStepNeverHalts ==
    /\ \A i \in IssueIds :
          (proc = "exited" /\ issues[i].status = "in_progress"
                           /\ issues[i].sub_step = "pr_reviewed") =>
              last_error \in {"CLIError", "MergeConflictError",
                              "KeyboardInterrupt"}
    /\ faults = 0 => exit_code \in {-1, 0}

\* ---------------------------------------------------------------------------
\* C22.  The retry of the code generation call.

\* The code generation call of step 3 is pending.
GenCall == proc = "running" /\ pc = "call" /\ site = "step" /\ step = 3

\* C22: a failed code generation call is tried again while fewer than
\* max_retries attempts have failed, so that one execution of the step makes
\* at most max_retries + 1 attempts; the failure of the last attempt halts
\* the run with exit code 1 and the cursor, in memory and in the state file,
\* still at branch_created; a success ends the attempts, and the step then
\* records code_generated.
C22_BoundedRetry ==
    [][/\ GenCall =>
            /\ attempt <= max_retries
            /\ (proc' = "running" /\ faults' # faults) =>
                   /\ attempt < max_retries
                   /\ attempt' = attempt + 1
                   /\ GenCall'
                   /\ issues' = issues
                   /\ disk' = disk
                   /\ effects' = effects
            /\ (proc' = "exited" /\ last_error' \in ErrorKinds) =>
                   /\ attempt = max_retries
                   /\ exit_code' = 1
                   /\ issues'[cur].sub_step = "branch_created"
                   /\ disk'.issues[cur].sub_step = "branch_created"
            /\ pc' = "record" =>
                   /\ faults' = faults
                   /\ attempt' = attempt
                   /\ effects'[cur][3] = effects[cur][3] + 1
       /\ (proc = "running" /\ pc = "record" /\ site = "step" /\ step = 3
              /\ proc' = "running") =>
            /\ effects' = effects
            /\ issues'[cur].sub_step = "code_generated"
            /\ disk'.issues[cur].sub_step = "code_generated"]_vars

\* Every attempt of one execution of step 3 failed and the run halted.
C22_Witness ==
    /\ proc = "exited"
    /\ exit_code = 1
    /\ last_error \in ErrorKinds
    /\ faults = max_retries + 1
    /\ run_exec[1][3] = 1
    /\ issues[1].sub_step = "branch_created"
    /\ disk.issues[1].sub_step = "branch_created"

\* ---------------------------------------------------------------------------
\* C24.  Merge conflicts and the conflict-resolution fallback.

\* One of the four merge operations is pending: the remote merge of the
\* issue's change request, the local merge of the feature branch, the remote
\* merge of the phase's change request, the merge of trunk into the
\* integration line.
MergePending ==
    /\ proc = "running"
    /\ pc = "call"
    /\ \/ site = "step" /\ step = 8
       \/ site \in {"manual_merge", "phase_pr_merge", "phase_merge_trunk"}

\* C24: a MergeConflictError raised by a merge operation never reaches main's
\* handler: no step taken while a merge operation is pending ends the run
\* with that error.
C24_ConflictNeverFatal ==
    [][MergePending =>
          ~(proc' = "exited" /\ last_error' = "MergeConflictError")]_vars

(***************************************************************************)
(* resolve_conflicts (conflict_resolver.py).  A text is the sequence of    *)
(* its lines, and the empty sequence is the empty text.  The lines are     *)
(* the ones the substring tests and the fence stripping tell apart; the    *)
(* two fence lines, three backticks alone and three backticks followed by  *)
(* a language name, are written with the word fence.                       *)
(***************************************************************************)
Fence == "fence"
FenceLang == "fence python"
Ours == "<<<<<<< HEAD"
Sep7 == "======="
Sep6 == "======"
Theirs == ">>>>>>> feature"
Code == "x = 1"
Blank == ""

\* The lines of a generated text.  claude_generate strips its result, and a
\* blank line inside the text takes no part in any test of the resolver.
ResponseLines == {Fence, FenceLang, Ours, Sep7, Sep6, Theirs, Code}

\* The lines of which the token is a substring.
LinesWith(token) ==
    IF token = "<<<<<<" THEN {Ours}
    ELSE IF token = "=======" THEN {Sep7}
    ELSE IF token = "======" THEN {Sep6, Sep7}
    ELSE IF token = ">>>>>>" THEN {Theirs}
    ELSE {}

\* Python's `token in text`.
In(token, text) == \E i \in 1..Len(text) : text[i] \in LinesWith(token)

\* text.strip().split("\n"): the lines between the first and the last line
\* that is not blank.
strip_split(text) ==
    LET nb == {i \in 1..Len(text) : text[i] # Blank}
    IN  IF nb = {}
        THEN <<>>
        ELSE SubSeq(text, CHOOSE i \in nb : \A j \in nb : i <= j,
                          CHOOSE i \in nb : \A j \in nb : j <= i)

\* _strip_code_fences
strip_code_fences(text) ==
    LET lines == strip_split(text)
        l1 == IF Len(lines) > 0 /\ lines[1] \in {Fence, FenceLang}
              THEN Tail(lines)
              ELSE lines
    IN  IF Len(l1) > 0 /\ l1[Len(l1)] = Fence
        THEN SubSeq(l1, 1, Len(l1) - 1)
        ELSE l1

\* A marker test on six `=`.
has_markers_six(text) ==
    In("<<<<<<", text) \/ In("======", text) \/ In(">>>>>>", text)

\* The test that follows the first response in _resolve_single_file.
has_markers(text) ==
    In("<<<<<<", text) \/ In("=======", text) \/ In(">>>>>>", text)

\* What claude_generate may return: result.stdout.strip().
Responses == UNION {[1..n -> ResponseLines] : n \in 0..MaxRespLines}

\* The contents a file git reports as unmerged may have: a conflict block,
\* or no marker at all (a conflict of deletion against change, or a stale
\* report).
Conflicted == <<Ours, Code, Sep7, Code, Theirs>>
Markerless == <<Code>>

\* git_conflicted_files: the files of one merge, in the order the loop
\* takes them.
ConflictedLists ==
    { <<>>,
      <<Markerless>>,
      <<Markerless, Markerless>>,
      <<Markerless, Conflicted>>,
      <<Conflicted, Markerless>> }

\* content, the file the loop of resolve_conflicts is at.
rfile == rfiles[rpos]

\* A marker test that every content passes.
has_conflict_start_always(content) == TRUE

\* The test `"<<<<<<" not in content` of resolve_conflicts, negated.
has_conflict_start(content) == In("<<<<<<", content)

\* resolve_conflicts has been called and git has listed the files.
InitResolve ==
    /\ rfiles \in ConflictedLists
    /\ rpos = 0
    /\ resolution = <<>>
    /\ gen_calls = 0
    /\ rpc = "start"
    /\ stored_doc = NoDocument
    /\ load_result = NotLoaded
    /\ raw_output = NoOutput
    /\ stream = <<>> /\ written = 0 /\ consumed = 0
    /\ result_text = "" /\ read_done = FALSE
    /\ child = "none" /\ returncode = -1
    /\ mpc = "idle" /\ completed = "none"
    /\ mem_state = <<>> /\ json_file = <<>> /\ loaded_state = <<>>
    /\ tpc = "idle"
    /\ IdlePipeline
    /\ IdleSort
    /\ IdleSave
    /\ IdleBody

\* resolve_conflicts: `for file_path in conflicted`, entered at the start
\* and after a file was skipped or written; the function returns when no
\* file is left (at once when git listed none).
NextFile ==
    /\ rpc \in {"start", "skipped", "done"}
    /\ IF rpos < Len(rfiles)
       THEN /\ rpos' = rpos + 1
            /\ rpc' = "read"
            /\ resolution' = <<>>
            /\ gen_calls' = 0
       ELSE /\ rpc' = "returned"
            /\ UNCHANGED <<rpos, resolution, gen_calls>>
    /\ UNCHANGED rfiles

\* resolve_conflicts: a file without "<<<<<<" is skipped.
ResolveRead ==
    /\ rpc = "read"
    /\ rpc' = IF ~has_conflict_start(rfile) THEN "skipped" ELSE "first_call"
    /\ UNCHANGED <<rfiles, rpos, resolution, gen_calls>>

\* _resolve_single_file: the first call returns, its fences are stripped and
\* the markers are looked for.
FirstResponse ==
    /\ rpc = "first_call"
    /\ \E raw \in Responses : resolution' = strip_code_fences(raw)
    /\ gen_calls' = gen_calls + 1
    /\ rpc' = IF has_markers(resolution') THEN "second_call" ELSE "write"
    /\ UNCHANGED <<rfiles, rpos>>

\* _resolve_single_file: the corrective call returns and its fences are
\* stripped; nothing is looked for.
SecondResponse ==
    /\ rpc = "second_call"
    /\ \E raw \in Responses : resolution' = strip_code_fences(raw)
    /\ gen_calls' = gen_calls + 1
    /\ rpc' = "write"
    /\ UNCHANGED <<rfiles, rpos>>

\* claude_generate raises: the exception leaves resolve_conflicts.
GenerateRaise ==
    /\ rpc \in {"first_call", "second_call"}
    /\ gen_calls' = gen_calls + 1
    /\ rpc' = "raised"
    /\ UNCHANGED <<rfiles, rpos, resolution>>

\* resolve_conflicts: the returned text is written over the file.
WriteBack ==
    /\ rpc = "write"
    /\ rfiles' = [rfiles EXCEPT ![rpos] = resolution]
    /\ rpc' = "done"
    /\ UNCHANGED <<rpos, resolution, gen_calls>>

\* The variables resolve_conflicts leaves alone.
outsideResolve ==
    <<pipeVars, sortVars, saveVars, bodyVars, loadVars, setupVars, runVars, tripVars>>

NextResolve ==
    \/ (NextFile /\ UNCHANGED outsideResolve)
    \/ (ResolveRead /\ UNCHANGED outsideResolve)
    \/ (FirstResponse /\ UNCHANGED outsideResolve)
    \/ (SecondResponse /\ UNCHANGED outsideResolve)
    \/ (GenerateRaise /\ UNCHANGED outsideResolve)
    \/ (WriteBack /\ UNCHANGED outsideResolve)

SpecResolve == InitResolve /\ [][NextResolve]_vars

\* ---------------------------------------------------------------------------
\* C25, C26.  What resolve_conflicts writes back and how often it asks.

\* The text contains one of the tokens <<<<<<, ======, >>>>>>.
ClaimedTokens(text) ==
    \E i \in 1..Len(text) : text[i] \in {Ours, Sep6, Sep7, Theirs}

\* The text contains one of <<<<<<, ======= (seven `=`), >>>>>>.
TestedTokens(text) ==
    \E i \in 1..Len(text) : text[i] \in {Ours, Sep7, Theirs}

\* C25: the content resolve_conflicts writes back over a conflicted file
\* contains none of the tokens <<<<<<, ======, >>>>>>.
C25_NoMarkersWritten == rpc = "done" => ~ClaimedTokens(rfile)

C27_ExitCodes ==
    proc = "exited" =>
        /\ exit_code \in {0, 1, 130}
        /\ exit_code = 0 =>
              /\ last_error = "none"
              /\ \A i \in IssueIds : Closed(i) /\ Recorded(issues[i].phase)
        /\ exit_code = 130 <=> last_error = "KeyboardInterrupt"
        /\ exit_code = 1 <=>
              last_error \in {"ValueError", "CLIError", "MergeConflictError"}
        /\ exit_code # 0 => disk = asdict(issues, phases_merged)

\* A run has ended with exit code 0 after merging a phase, and runs before
\* it were ended by an error or an interrupt.
C27_Witness ==
    /\ proc = "exited"
    /\ exit_code = 0
    /\ faults > 0
    /\ \E p \in Phases : phase_effects[p].merged > 0 /\ Recorded(p)
    /\ \A i \in IssueIds : Closed(i)

(***************************************************************************)
(* AgentState.load (state.py) on an arbitrary file.  A document is told    *)
(* by what load looks at: whether it is JSON at all, whether its top is    *)
(* an object, the keys of the object, and for each entry of "issues" its   *)
(* keys and its cursor.  The key "index" stands for the four fields of     *)
(* IssueState without a default, "color" and "extra" for keys the classes  *)
(* do not have.                                                            *)
(***************************************************************************)
TopKeys == {"issues", "phases_merged", "color"}
EntryKeys == {"index", "sub_step", "extra"}
CursorValues == {"not_started", "issue_closed", "tests_passed"}

\* The entries of "issues": an entry without the key sub_step has no cursor
\* of its own.
Entries ==
    {e \in [keys : SUBSET EntryKeys, sub_step : CursorValues \cup {"absent"}] :
        e.sub_step = "absent" <=> "sub_step" \notin e.keys}

StoredDocs ==
    { [syntax |-> "invalid", top |-> "none", keys |-> {}, issues |-> <<>>],
      [syntax |-> "valid", top |-> "array", keys |-> {}, issues |-> <<>>] }
    \cup
    { d \in [syntax : {"valid"}, top : {"object"}, keys : SUBSET TopKeys,
             issues : UNION {[1..n -> Entries] : n \in 0..MaxStoredIssues}] :
        "issues" \notin d.keys => d.issues = <<>> }

\* IssueState(**iss): a key that is no field, or a missing field without a
\* default, raises TypeError.
IssueStateAccepts(e) == "index" \in e.keys /\ "extra" \notin e.keys

\* IssueState(**iss) for an accepted entry: sub_step defaults to
\* "not_started" and is taken as it is otherwise.
IssueStateOf(e) ==
    [sub_step |-> IF "sub_step" \in e.keys THEN e.sub_step ELSE "not_started"]

Raised(err) == [outcome |-> "raised", error |-> err, state |-> <<>>]

\* AgentState.load
AgentState_load(doc) ==
    IF doc.syntax = "invalid" THEN Raised("JSONDecodeError")
    ELSE IF doc.top # "object" THEN Raised("AttributeError")
    ELSE IF \E i \in 1..Len(doc.issues) : ~IssueStateAccepts(doc.issues[i])
    THEN Raised("TypeError")
    ELSE [outcome |-> "returned", error |-> "none",
          state |-> [issues |-> [i \in 1..Len(doc.issues) |->
                                    IssueStateOf(doc.issues[i])],
                     attributes |-> doc.keys \cup {"issues", "phases_merged"}]]

\* Some document is at the state path and load has not been called.
InitLoad ==
    /\ stored_doc \in StoredDocs
    /\ load_result = NotLoaded
    /\ rfiles = <<>> /\ rpos = 0
    /\ resolution = <<>> /\ gen_calls = 0 /\ rpc = "idle"
    /\ raw_output = NoOutput
    /\ stream = <<>> /\ written = 0 /\ consumed = 0
    /\ result_text = "" /\ read_done = FALSE
    /\ child = "none" /\ returncode = -1
    /\ mpc = "idle" /\ completed = "none"
    /\ mem_state = <<>> /\ json_file = <<>> /\ loaded_state = <<>>
    /\ tpc = "idle"
    /\ IdlePipeline
    /\ IdleSort
    /\ IdleSave
    /\ IdleBody

LoadDocument ==
    /\ load_result = NotLoaded
    /\ load_result' = AgentState_load(stored_doc)
    /\ UNCHANGED <<stored_doc, pipeVars, sortVars, saveVars, bodyVars,
                   resolveVars, setupVars, runVars, tripVars>>

NextLoad == LoadDocument

SpecLoad == InitLoad /\ [][NextLoad]_vars

\* ---------------------------------------------------------------------------
\* C28.  Documents that do not have the expected shape.

\* The document parses into the expected shape: an object with exactly the
\* fields of the state, every issue entry with exactly the fields of an
\* issue and a cursor of SUB_STEPS.
ExpectedShape(doc) ==
    /\ doc.syntax = "valid"
    /\ doc.top = "object"
    /\ doc.keys = {"issues", "phases_merged"}
    /\ \A i \in 1..Len(doc.issues) :
          /\ doc.issues[i].keys = {"index", "sub_step"}
          /\ \E k \in 1..Len(SUB_STEPS) : SUB_STEPS[k] = doc.issues[i].sub_step

\* C28: for a document that does not parse into the expected shape, load
\* fails with CorruptStateError and returns no state.
C28_CorruptDocumentsRejected ==
    (load_result # NotLoaded /\ ~ExpectedShape(stored_doc)) =>
        /\ load_result.outcome = "raised"
        /\ load_result.error = "CorruptStateError"

\* ---------------------------------------------------------------------------
\* C29.  The identifiers of an issue and its cursor.

\* In the issue record r each identifier is set exactly when the cursor is
\* at or past the step that creates it (0 is the null identifier).
IdsMatchCursor(r) ==
    /\ r.github_issue_number # 0 <=> Ord(r.sub_step) >= Ord("issue_created")
    /\ r.branch_name # 0 <=> Ord(r.sub_step) >= Ord("branch_created")
    /\ r.pr_number # 0 <=> Ord(r.sub_step) >= Ord("pr_created")

\* C29: in the state file at every moment, and in memory whenever no step
\* is under way (after a failed step as well), the ticket, branch and
\* change-request identifiers of every issue are non-null exactly when the
\* cursor is at or past issue_created, branch_created and pr_created.
C29_IdsMatchCursor ==
    \A i \in IssueIds :
        /\ IdsMatchCursor(disk.issues[i])
        /\ pc \notin {"call", "record"} => IdsMatchCursor(issues[i])

(***************************************************************************)
(* generate_issues_json (planner.py).  The generated text is the sequence  *)
(* of its lines: fence lines, lines of prose, blank lines, and JsonText,   *)
(* the line that holds the whole JSON value; `value` is that value, a      *)
(* list of issue objects told by their phase and by whether they have the  *)
(* four required fields.                                                    *)
(***************************************************************************)
JsonText == "json"
Chatter == "Here are the issues:"

OutputLines == {Fence, FenceLang, Chatter, JsonText, Blank}

IssueObjects == [complete : BOOLEAN, phase : Phases]

\* What claude_generate may return for the issue list prompt.
RawOutputs ==
    [lines : {r \in UNION {[1..n -> OutputLines] : n \in 0..MaxRespLines} :
                r = <<>> \/ (r[1] # Blank /\ r[Len(r)] # Blank)},
     value : UNION {[1..n -> IssueObjects] : n \in 1..MaxIssues}]

\* cleaned: when the text starts with a fence, every line that starts with
\* a fence is dropped.
clean_fences(lines) ==
    IF Len(lines) > 0 /\ lines[1] \in {Fence, FenceLang}
    THEN SelectSeq(lines, LAMBDA l : l \notin {Fence, FenceLang})
    ELSE lines

\* json.loads(cleaned): the text is one JSON value, blank lines around it
\* allowed; anything else raises JSONDecodeError.
json_loads_ok(lines) == SelectSeq(lines, LAMBDA l : l # Blank) = <<JsonText>>

\* The state when main reaches the step Generate Issues of a fresh run.
InitSetup ==
    /\ raw_output \in RawOutputs
    /\ stream = <<>> /\ written = 0 /\ consumed = 0
    /\ result_text = "" /\ read_done = FALSE
    /\ child = "none" /\ returncode = -1
    /\ mpc = "idle" /\ completed = "none"
    /\ mem_state = <<>> /\ json_file = <<>> /\ loaded_state = <<>>
    /\ tpc = "idle"
    /\ issues = <<>>
    /\ effects = <<>>
    /\ run_exec = <<>>
    /\ loaded = <<>>
    /\ phases_merged = <<>>
    /\ disk = asdict(issues, phases_merged)
    /\ proc = "running"
    /\ exit_code = -1
    /\ last_error = "none"
    /\ pc = "generate_issues"
    /\ phase_pos = 1
    /\ issue_pos = 1
    /\ step = 0
    /\ site = "none"
    /\ attempt = 0
    /\ ret = 0
    /\ review = "none"
    /\ next_number = 1
    /\ phase_effects = [p \in Phases |-> [created |-> 0, merged |-> 0]]
    /\ faults = 0
    /\ rfiles = <<>> /\ rpos = 0
    /\ resolution = <<>> /\ gen_calls = 0 /\ rpc = "idle"
    /\ stored_doc = NoDocument /\ load_result = NotLoaded
    /\ IdleSort
    /\ IdleSave
    /\ IdleBody

\* generate_issues_json after claude_generate has returned: fences, parse,
\* required fields, sort, state.issues, save.  An exception reaches main's
\* handler.
GenerateIssues ==
    /\ proc = "running"
    /\ pc = "generate_issues"
    /\ UNCHANGED <<phases_merged, phase_pos, issue_pos, next_number,
                   phase_effects, faults, raw_output>>
    /\ IF ~json_loads_ok(clean_fences(raw_output.lines))
       THEN /\ Halt(1, "JSONDecodeError", issues)
            /\ UNCHANGED <<issues, effects, run_exec, loaded>>
       ELSE IF \E i \in 1..Len(raw_output.value) : ~raw_output.value[i].complete
       THEN /\ Halt(1, "ValueError", issues)
            /\ UNCHANGED <<issues, effects, run_exec, loaded>>
       ELSE LET v == raw_output.value
                sorted == topological_sort_issues(
                              [i \in 1..Len(v) |-> WorkItem(i, v[i].phase, {})])
            IN  /\ issues' = [i \in 1..Len(sorted) |-> IssueState(sorted[i].phase)]
                /\ effects' = ZeroCounts(Len(sorted))
                /\ run_exec' = ZeroCounts(Len(sorted))
                /\ loaded' = [i \in 1..Len(sorted) |-> "not_started"]
                /\ disk' = save(issues', phases_merged)
                /\ pc' = "setup_repo"
                /\ UNCHANGED <<proc, exit_code, last_error, step, site, attempt,
                               ret, review>>

\* The variables generate_issues_json leaves alone.
outsideSetup == <<sortVars, saveVars, bodyVars, resolveVars, loadVars, runVars, tripVars>>

NextSetup == (GenerateIssues /\ UNCHANGED outsideSetup)

SpecSetup == InitSetup /\ [][NextSetup]_vars

\* ---------------------------------------------------------------------------
\* C30.  Parse failures of generated output.

\* C30: when the text generated for the issue list does not parse, the run
\* is not halted and the state file is left as it is.
C30_ParseFailureNotFatal ==
    [][(pc = "generate_issues"
          /\ ~json_loads_ok(clean_fences(raw_output.lines))) =>
            /\ proc' = "running"
            /\ disk' = disk]_vars

\* ---------------------------------------------------------------------------
\* C33.  The review verdict.

\* C33: whatever the verdict of the review, the step that follows the
\* review's return records pr_reviewed in memory and in the state file and
\* the driver goes on to the guard of step 7; no state past that record has
\* a verdict and a cursor short of pr_reviewed.
C33_VerdictNeverGates ==
    [][/\ (proc = "running" /\ pc = "record" /\ site = "step" /\ step = 6
             /\ proc' = "running") =>
            /\ review \in Verdicts
            /\ review' = review
            /\ issues'[cur].sub_step = "pr_reviewed"
            /\ disk'.issues[cur].sub_step = "pr_reviewed"
            /\ pc' = "guard"
            /\ step' = 7
       /\ (review' \in Verdicts /\ pc' = "guard") =>
            /\ step' = 7
            /\ issues'[cur].sub_step = "pr_reviewed"]_vars

\* The review raised concerns and the driver stands at the guard of step 7
\* with the cursor at pr_reviewed.
C33_Witness ==
    /\ proc = "running"
    /\ pc = "guard"
    /\ step = 7
    /\ review = "CONCERNS"
    /\ issues[cur].sub_step = "pr_reviewed"
    /\ disk.issues[cur].sub_step = "pr_reviewed"

\* ---------------------------------------------------------------------------
\* C34.  The section _extract_test_items reads.

\* The positions of the checkbox lines between the first Test Plan heading
\* and the next heading of equal or higher level (a level number not above
\* the Test Plan heading's).
LevelSectionPositions(body) ==
    IF \A j \in 1..Len(body) : ~IsTestPlanHeading(body[j]) THEN {}
    ELSE LET start == SectionStart(body)
         IN  { j \in (start + 1)..Len(body) :
                 /\ IsCheckbox(body[j])
                 /\ \A h \in (start + 1)..(j - 1) :
                       ~(body[h].kind = "heading"
                           /\ body[h].level <= body[start].level) }

\* C34: the items extracted from a description are exactly its checkbox
\* lines between the Test Plan heading and the next heading of equal or
\* higher level, in order: a deeper heading does not end the section.  The
\* formula is the case of a description with one Test Plan heading.
C34_SectionEndsAtEqualOrHigher ==
    (test_attempt = 0
        /\ Cardinality({j \in 1..Len(pr_body) : IsTestPlanHeading(pr_body[j])}) = 1) =>
        LET ps == LevelSectionPositions(pr_body)
        IN  /\ Len(test_items) = Cardinality(ps)
            /\ \A j \in ps :
                  test_items[Cardinality({h \in ps : h <= j})] = ItemText(pr_body[j])

\* C35: a file reported as conflicted whose content holds no conflict
\* marker is skipped: no generation call is made for it and its content
\* stays as it was, and the loop goes on to the file after it (or returns
\* when it was the last).
C35_MarkerlessFileSkipped ==
    [][/\ (rpc = "read" /\ ~In("<<<<<<", rfiles[rpos])) =>
            /\ rpc' = "skipped"
            /\ gen_calls' = 0
            /\ rfiles' = rfiles
       /\ rpc = "skipped" =>
            /\ gen_calls = 0
            /\ rfiles' = rfiles
            /\ IF rpos < Len(rfiles)
               THEN rpc' = "read" /\ rpos' = rpos + 1
               ELSE rpc' = "returned"]_vars

\* A file without a marker was skipped and the file after it was resolved
\* and written.
C35_Witness ==
    /\ rpc = "done" /\ rpos = 2 /\ gen_calls >= 1
    /\ ~In("<<<<<<", rfiles[1])
    /\ rfiles[1] = Markerless

(***************************************************************************)
(* _run_claude (cli_bridge.py): the child process writes its events to a   *)
(* pipe, a daemon thread reads them and keeps the text of the result       *)
(* event in a variable it shares with the main thread, and the main thread *)
(* waits for the process, then at most ten seconds for the reader, and     *)
(* returns what the variable holds.                                        *)
(***************************************************************************)
MaxStream == 2

\* A line of stdout: a JSON event that is not the result, a result event
\* with its text, a line that is not JSON, an empty line.
Event(type, text) == [type |-> type, result |-> text]
StreamLines ==
    { Event("assistant", ""), Event("result", "A"), Event("result", "B"),
      Event("not_json", ""), Event("blank", "") }
Streams == UNION {[1..n -> StreamLines] : n \in 0..MaxStream}

\* _run_claude after Popen and reader.start().
InitRun ==
    /\ stream \in Streams
    /\ written = 0
    /\ consumed = 0
    /\ result_text = ""
    /\ read_done = FALSE
    /\ child = "running"
    /\ returncode = -1
    /\ mpc = "wait_proc"
    /\ completed = "none"
    /\ rfiles = <<>> /\ rpos = 0
    /\ resolution = <<>> /\ gen_calls = 0 /\ rpc = "idle"
    /\ stored_doc = NoDocument
    /\ load_result = NotLoaded
    /\ raw_output = NoOutput
    /\ mem_state = <<>> /\ json_file = <<>> /\ loaded_state = <<>>
    /\ tpc = "idle"
    /\ IdlePipeline
    /\ IdleSort
    /\ IdleSave
    /\ IdleBody

\* The child process writes its next line.
ChildWrite ==
    /\ child = "running"
    /\ written < Len(stream)
    /\ written' = written + 1
    /\ UNCHANGED <<stream, consumed, result_text, read_done, child,
                   returncode, mpc, completed>>

\* The child process exits, which closes its end of the pipe.
ChildExit ==
    /\ child = "running"
    /\ written = Len(stream)
    /\ child' = "exited"
    /\ \E code \in {0, 1} : returncode' = code
    /\ UNCHANGED <<stream, written, consumed, result_text, read_done, mpc,
                   completed>>

\* _read_and_display: one pass of `for line in proc.stdout`; the text of a
\* result event is stored, every other line leaves the variable alone.
ReadLine ==
    /\ ~read_done
    /\ consumed < written
    /\ consumed' = consumed + 1
    /\ result_text' = IF stream[consumed + 1].type = "result"
                      THEN stream[consumed + 1].result
                      ELSE result_text
    /\ UNCHANGED <<stream, written, read_done, child, returncode, mpc,
                   completed>>

\* _read_and_display: end of file on the pipe, the finally clause sets the
\* event.
ReadEnd ==
    /\ ~read_done
    /\ consumed = written
    /\ child \in {"exited", "killed"}
    /\ read_done' = TRUE
    /\ UNCHANGED <<stream, written, consumed, result_text, child,
                   returncode, mpc, completed>>

\* proc.wait(timeout) returns: the process has exited.
ProcWait ==
    /\ mpc = "wait_proc"
    /\ child = "exited"
    /\ mpc' = "wait_reader"
    /\ UNCHANGED <<stream, written, consumed, result_text, read_done, child,
                   returncode, completed>>

\* proc.wait(timeout) expires: the process is killed and TimeoutExpired
\* raised.
ProcTimeout ==
    /\ mpc = "wait_proc"
    /\ child = "running"
    /\ child' = "killed"
    /\ returncode' = -9
    /\ mpc' = "raised"
    /\ UNCHANGED <<stream, written, consumed, result_text, read_done,
                   completed>>

\* read_done.wait(timeout=10) returns, because the event is set or because
\* the ten seconds have passed, its value unused; a non-zero exit
\* code raises CLIError, otherwise the CompletedProcess carries what
\* result_text holds now.
ReadDoneWait ==
    /\ mpc = "wait_reader"
    /\ \E expired \in BOOLEAN : read_done \/ expired
    /\ IF returncode # 0
       THEN mpc' = "raised" /\ UNCHANGED completed
       ELSE mpc' = "returned" /\ completed' = result_text
    /\ UNCHANGED <<stream, written, consumed, result_text, read_done, child,
                   returncode>>

outsideRun == <<pipeVars, sortVars, saveVars, bodyVars, resolveVars, loadVars, setupVars, tripVars>>

NextRun ==
    \/ (ChildWrite /\ UNCHANGED outsideRun)
    \/ (ChildExit /\ UNCHANGED outsideRun)
    \/ (ReadLine /\ UNCHANGED outsideRun)
    \/ (ReadEnd /\ UNCHANGED outsideRun)
    \/ (ProcWait /\ UNCHANGED outsideRun)
    \/ (ProcTimeout /\ UNCHANGED outsideRun)
    \/ (ReadDoneWait /\ UNCHANGED outsideRun)

SpecRun == InitRun /\ [][NextRun]_vars

\* The positions of the result events in the stream.
ResultEvents == {k \in 1..Len(stream) : stream[k].type = "result"}

\* C36: whenever the process has emitted one result event and exited with
\* code 0, _run_claude returns the text of that event, however the reader
\* thread is interleaved with the two waits of the main thread.
C36_ReturnsResultText ==
    (mpc = "returned" /\ Cardinality(ResultEvents) = 1) =>
        \A k \in ResultEvents : completed = stream[k].result

\* C37: whatever failures, kills and resumes happen during the phase merge,
\* at most one trunk-bound change request is opened and merged for a phase.
C37_OneChangeRequestPerPhase ==
    \A p \in Phases : phase_effects[p].merged <= 1

\* C38: whenever process_all_issues returns normally, every issue has
\* status completed and cursor issue_closed, in memory and in the state
\* file; no issue at issue_closed is left in_progress.
C38_AllCompletedOnReturn ==
    (proc = "exited" /\ exit_code = 0) =>
        \A i \in 1..Len(issues) :
            /\ issues[i].status = "completed"
            /\ issues[i].sub_step = "issue_closed"
            /\ disk.issues[i].status = "completed"
            /\ disk.issues[i].sub_step = "issue_closed"

(***************************************************************************)
(* AgentState.save followed by AgentState.load (state.py).  A Python value *)
(* is told by its type and its text, a JSON value by its kind and its      *)
(* text: json.dump writes a StepStatus member as the string of its value,  *)
(* and json.load gives a str back for every string.                        *)
(***************************************************************************)
MaxTripIssues == 2

\* A Python object that json.dump writes as one token.
Py(type, text) == [t |-> type, v |-> text]

\* The fields of AgentState that are neither issues nor phases_merged, and
\* the fields of IssueState.
IdentityFields ==
    {"project_idea", "tech_stack", "repo_name", "repo_full_name", "project_dir"}
SetupFlags ==
    <<"plan_generated", "issues_json_generated", "repo_created",
      "scaffolding_done", "staging_branch_created">>
ScalarFields == IdentityFields \cup {SetupFlags[k] : k \in DOMAIN SetupFlags}
IssueFields ==
    {"index", "title", "phase", "priority", "github_issue_number",
     "branch_name", "pr_number", "status", "sub_step"}

\* AgentState(): the defaults of the dataclass.
AgentStateDefaults ==
    [f \in ScalarFields \cup {"issues", "phases_merged"} |->
        IF f \in IdentityFields THEN Py("str", "")
        ELSE IF f \in {"issues", "phases_merged"} THEN <<>>
        ELSE Py("bool", "False")]

\* The issues of a state: the identifiers are unset or set, the index is
\* the position in the list.
TripIssue(i, ids, status, cursor) ==
    [f \in IssueFields |->
        CASE f = "index" -> Py("int", IF i = 1 THEN "0" ELSE IF i = 2 THEN "1" ELSE "2")
          [] f = "title" -> Py("str", "Add login")
          [] f = "phase" -> Py("int", "1")
          [] f = "priority" -> Py("str", "high")
          [] f = "github_issue_number" -> IF ids THEN Py("int", "7") ELSE Py("NoneType", "None")
          [] f = "branch_name" -> IF ids THEN Py("str", "feature/7") ELSE Py("NoneType", "None")
          [] f = "pr_number" -> IF ids THEN Py("int", "8") ELSE Py("NoneType", "None")
          [] f = "status" -> status
          [] f = "sub_step" -> Py("str", cursor)]

\* The lists of issues: the status of an issue in memory is a member of
\* StepStatus when the program assigned it and a str when it came from a
\* state file.
TripIssueLists ==
    LET statuses == { Py("StepStatus", "pending"), Py("StepStatus", "in_progress"),
                      Py("str", "completed") }
    IN  UNION { { [i \in 1..n |-> TripIssue(i, c[i][1], c[i][2], c[i][3])] :
                    c \in [1..n -> BOOLEAN \X statuses
                                      \X {"not_started", "issue_closed"}] } :
                n \in 0..MaxTripIssues }

\* The states that are saved: the setup flags are set in the order of the
\* pipeline, the identity fields are all empty or all set.
TripStates ==
    { [f \in ScalarFields \cup {"issues", "phases_merged"} |->
          IF f \in IdentityFields THEN Py("str", IF named THEN f ELSE "")
          ELSE IF f = "issues" THEN iss
          ELSE IF f = "phases_merged" THEN pm
          ELSE Py("bool", IF \E k \in 1..stage : SetupFlags[k] = f
                      THEN "True" ELSE "False")] :
        named \in BOOLEAN, stage \in 0..Len(SetupFlags), iss \in TripIssueLists,
        pm \in {<<>>, <<Py("int", "1")>>, <<Py("int", "1"), Py("int", "2")>>} }

\* asdict(self): a dict of the fields, every IssueState a dict of its
\* fields; the leaves are the objects themselves.
dataclass_asdict(st) ==
    [f \in DOMAIN st |->
        IF f = "issues"
        THEN [i \in 1..Len(st.issues) |->
                 [g \in DOMAIN st.issues[i] |-> st.issues[i][g]]]
        ELSE st[f]]

\* An encoder that writes a StepStatus member by its name.
json_encode_by_name(value) ==
    IF value.t = "StepStatus" THEN [j |-> "string", v |-> "StepStatus"]
    ELSE IF value.t = "str" THEN [j |-> "string", v |-> value.v]
    ELSE IF value.t = "int" THEN [j |-> "number", v |-> value.v]
    ELSE IF value.t = "bool"
    THEN [j |-> "boolean", v |-> IF value.v = "True" THEN "true" ELSE "false"]
    ELSE [j |-> "null", v |-> "null"]

\* json.dump of a leaf: a str, and a StepStatus member (a str subclass), is
\* written as a string, an int as a number, a bool as true or false, None
\* as null.
json_encode(value) ==
    IF value.t \in {"str", "StepStatus"} THEN [j |-> "string", v |-> value.v]
    ELSE IF value.t = "int" THEN [j |-> "number", v |-> value.v]
    ELSE IF value.t = "bool"
    THEN [j |-> "boolean", v |-> IF value.v = "True" THEN "true" ELSE "false"]
    ELSE [j |-> "null", v |-> "null"]

\* json.load of a leaf.
json_decode(token) ==
    IF token.j = "string" THEN Py("str", token.v)
    ELSE IF token.j = "number" THEN Py("int", token.v)
    ELSE IF token.j = "boolean"
    THEN Py("bool", IF token.v = "true" THEN "True" ELSE "False")
    ELSE Py("NoneType", "None")

\* json.dump(asdict(self), f, indent=2)
json_dump(data) ==
    [f \in DOMAIN data |->
        IF f = "issues"
        THEN [i \in 1..Len(data.issues) |->
                 [g \in DOMAIN data.issues[i] |-> json_encode(data.issues[i][g])]]
        ELSE IF f = "phases_merged"
        THEN [i \in 1..Len(data.phases_merged) |-> json_encode(data.phases_merged[i])]
        ELSE json_encode(data[f])]

\* json.load(f)
json_load(doc) ==
    [f \in DOMAIN doc |->
        IF f = "issues"
        THEN [i \in 1..Len(doc.issues) |->
                 [g \in DOMAIN doc.issues[i] |-> json_decode(doc.issues[i][g])]]
        ELSE IF f = "phases_merged"
        THEN [i \in 1..Len(doc.phases_merged) |-> json_decode(doc.phases_merged[i])]
        ELSE json_decode(doc[f])]

\* AgentState.load after json.load: cls(), then every key of the data is
\* set on it, the entries of "issues" through IssueState(**iss).
state_from_data(data) ==
    [f \in DOMAIN AgentStateDefaults |->
        IF f \notin DOMAIN data THEN AgentStateDefaults[f]
        ELSE IF f = "issues"
        THEN [i \in 1..Len(data.issues) |->
                 [g \in IssueFields |-> data.issues[i][g]]]
        ELSE data[f]]

\* Some state is in memory and save has not been called.
InitTrip ==
    /\ mem_state \in TripStates
    /\ json_file = <<>>
    /\ loaded_state = <<>>
    /\ tpc = "start"
    /\ rfiles = <<>> /\ rpos = 0
    /\ resolution = <<>> /\ gen_calls = 0 /\ rpc = "idle"
    /\ stored_doc = NoDocument
    /\ load_result = NotLoaded
    /\ raw_output = NoOutput
    /\ stream = <<>> /\ written = 0 /\ consumed = 0
    /\ result_text = "" /\ read_done = FALSE
    /\ child = "none" /\ returncode = -1
    /\ mpc = "idle" /\ completed = "none"
    /\ IdlePipeline
    /\ IdleSort
    /\ IdleSave
    /\ IdleBody

\* AgentState.save returns: the file holds the dump of asdict(self).
TripSave ==
    /\ tpc = "start"
    /\ json_file' = json_dump(dataclass_asdict(mem_state))
    /\ tpc' = "saved"
    /\ UNCHANGED <<mem_state, loaded_state>>

\* AgentState.load on that file.
TripLoad ==
    /\ tpc = "saved"
    /\ loaded_state' = state_from_data(json_load(json_file))
    /\ tpc' = "loaded"
    /\ UNCHANGED <<mem_state, json_file>>

outsideTrip == <<pipeVars, sortVars, saveVars, bodyVars, resolveVars, loadVars, setupVars, runVars>>

NextTrip ==
    \/ (TripSave /\ UNCHANGED outsideTrip)
    \/ (TripLoad /\ UNCHANGED outsideTrip)

SpecTrip == InitTrip /\ [][NextTrip]_vars

\* Python's == on two leaves: equal text and equal type, a StepStatus
\* member being equal to the str of its value.
PyEq(a, b) ==
    /\ a.v = b.v
    /\ \/ a.t = b.t
       \/ {a.t, b.t} = {"str", "StepStatus"}

\* C39: the state that load returns from the file that save wrote equals
\* the saved state field by field: the identity fields, the five setup
\* flags, the issues in the same order with every field, and
\* phases_merged.
C39_RoundTrip ==
    tpc = "loaded" =>
        /\ DOMAIN loaded_state = DOMAIN mem_state
        /\ \A f \in ScalarFields : PyEq(loaded_state[f], mem_state[f])
        /\ Len(loaded_state.issues) = Len(mem_state.issues)
        /\ \A i \in 1..Len(mem_state.issues) :
              \A g \in IssueFields :
                  PyEq(loaded_state.issues[i][g], mem_state.issues[i][g])
        /\ Len(loaded_state.phases_merged) = Len(mem_state.phases_merged)
        /\ \A i \in 1..Len(mem_state.phases_merged) :
              PyEq(loaded_state.phases_merged[i], mem_state.phases_merged[i])

\* A state with two issues, the first in progress with its identifiers
\* set, the second untouched, and one merged phase has been saved and
\* loaded back.
C39_Witness ==
    /\ tpc = "loaded"
    /\ Len(mem_state.issues) = 2
    /\ mem_state.issues[1]["status"] = Py("StepStatus", "in_progress")
    /\ mem_state.issues[1]["pr_number"] = Py("int", "8")
    /\ mem_state.issues[2]["github_issue_number"] = Py("NoneType", "None")
    /\ Len(mem_state.phases_merged) = 1
    /\ loaded_state.issues[1]["status"] = Py("str", "in_progress")

\* The test items have pairwise distinct texts.
DistinctItems ==
    \A a, b \in 1..Len(test_items) : test_items[a] = test_items[b] => a = b

\* C40: _update_pr_body_with_results keeps the number of lines and changes
\* only the checklist lines of the Test Plan section whose item has a
\* result: every other line, a checkbox line outside the section with the
\* text of a test item included, is as before and where it was.
C40_OnlyChecklistLinesChange ==
    (Rewritten /\ DistinctItems) =>
        /\ Len(pr_body) = Len(prev_body)
        /\ \A j \in 1..Len(prev_body) :
              (\A k \in 1..Len(test_items) :
                    (j = ItemPos(prev_body, k)) =>
                        \A n \in 1..Len(results) : results[n].number # k) =>
                  pr_body[j] = prev_body[j]

====
